---- MODULE Spec2Model ----
(***************************************************************************)
(* A state-machine model of n8n-nodes-sui.                                 *)
(*                                                                         *)
(*  Part I   SuiWebSocketClient (transport/websocketClient.ts): sockets,   *)
(*           subscribe correlation, inbound dispatch, reconnect backoff.   *)
(*  Part II  The raw JSON-RPC node (Sui.node.ts): the per-item loop of the *)
(*           resource handlers, error mapping and request URL.             *)
(*  Part III The SDK-based operations (the actions directory): the         *)
(*           signing-identity preconditions before the remote calls.       *)
(*                                                                         *)
(* Each part has its own specification (SpecWs, SpecRaw, SpecSdk); the     *)
(* variables of the other parts stay unchanged under it.                   *)
(***************************************************************************)
EXTENDS Integers, Sequences, FiniteSets, TLC

(***************************************************************************)
(* Bounds of the model (not program constants).                            *)
(***************************************************************************)
\* WebSocket objects the client may construct in one run.
MaxSockets == 6
\* WebSocket objects constructed plus requests sent, in a run in which requests
\* are sent.
MaxSubWork == 4
\* Largest JSON-RPC request id the client may use in one run.
MaxMsgId == 3
\* Input items handed to one run of a resource handler.
MaxItems == 2
\* Largest timeout a caller passes to waitForTransaction, in seconds.
MaxWaitSeconds == 3
\* Longest time one poll of waitForTransaction takes, in seconds.
MaxPollSeconds == 1
\* Largest page size a caller asks for besides the default.
MaxLimit == 2
\* Most digits of a gas cost component reported by a dry run.
MaxDigits == 2
\* How far the lengths of the identifiers tried lie from 0 and from 64.
MaxSlack == 2
\* Deepest nesting of type arguments in the coin types tried.
MaxTypeDepth == 2
\* Largest amount converted, counted in smallest units.
MaxScaled == 30
\* Most decimal places of a token.
MaxDecimals == 2

(***************************************************************************)
(* JavaScript values.                                                      *)
(***************************************************************************)
NULL == "null"
UNDEFINED == "undefined"
JsZero == "number:0"
JsFalse == "boolean:false"

\* JavaScript truthiness of a tagged value
IsTruthy(v) == v \notin {NULL, UNDEFINED, "", JsZero, JsFalse}

(***************************************************************************)
(* Part I: SuiWebSocketClient                                              *)
(***************************************************************************)
VARIABLES
    ws,                 \* this.ws: 0 is null, otherwise the socket's number
    readyState,         \* socket number -> state of that WebSocket object
    subscriptionId,     \* this.subscriptionId
    messageId,          \* this.messageId
    reconnectAttempts,  \* this.reconnectAttempts
    isClosing,          \* this.isClosing
    timers,             \* pending backoff timers of handleReconnect: their delays
    calls,              \* request id -> the subscribe call that sent it
    sent,               \* the JSON-RPC requests written to sockets, in order
    answered,           \* ids of the requests the server has responded to
    connectCalled,      \* the owner of the client has called connect()
    triggerType,        \* the owner's 'triggerType' parameter: event or transaction
    nSockets,           \* WebSocket objects constructed so far
    delays,             \* backoff delays used since the last successful open
    terminalErrors,     \* 'Max reconnection attempts reached' reports to onError
    forwarded,          \* the last step invoked onEvent
    errored             \* the last step invoked onError

wsVars == <<ws, readyState, subscriptionId, messageId, reconnectAttempts,
            isClosing, timers, calls, sent, answered, connectCalled, triggerType,
            nSockets,
            delays, terminalErrors, forwarded, errored>>

\* Part II: one run of a resource handler of the raw JSON-RPC node
VARIABLES
    resource,           \* the 'resource' parameter: which handler runs
    credentials,        \* what getCredentials('suiApi') returns
    contOnFail,         \* what this.continueOnFail() returns
    items,              \* per input item, what the remote endpoint does with its request
    itemIndex,          \* the handler's loop index i
    returnData,         \* the handler's returnData
    httpRequests,       \* the calls of this.helpers.httpRequest so far: item and url
    rawPc,              \* "loop", "returned" or "thrown"
    rawError            \* message of the error the handler threw

rawVars == <<resource, credentials, contOnFail, items, itemIndex, returnData, httpRequests,
             rawPc, rawError>>

\* Part III: one run of an SDK-based operation
VARIABLES
    sdkOp,              \* resource and operation parameters: which case runs
    hasKey,             \* credentials.privateKey is set (keypair and address exist)
    sdkInput,           \* the operation's other parameters: "valid", "empty", "malformed"
    sdkPc,              \* position in the operation's statement sequence
    sdkStatus,          \* "running", "returned" or "thrown"
    sdkError,           \* message of the error the operation threw
    remoteCalls         \* requests sent to the RPC endpoint so far

sdkVars == <<sdkOp, hasKey, sdkInput, sdkPc, sdkStatus, sdkError, remoteCalls>>

\* Part IV: one credential set of type suiNetwork and what is created from it
VARIABLES
    netCredentials,     \* what getSuiCredentials returns: network, customRpcUrl, faucetUrl
    faucetAddress,      \* requestFaucet: the 'address' parameter or the credential address
    rpcUrl,             \* url of the SuiClient createSuiClient made
    wsUrl,              \* wsUrl of the client createWebSocketClient made
    faucetStatus,       \* requestFaucet: "idle", "returned" or "thrown"
    faucetError,        \* message of the error requestFaucet threw
    faucetPosts         \* the urls axios.post was called with

netVars == <<netCredentials, faucetAddress, rpcUrl, wsUrl, faucetStatus, faucetError,
             faucetPosts>>

\* Part V: one call of waitForTransaction
VARIABLES
    waitTimeout,        \* options.timeout as the caller passed it, in ms
    waitElapsed,        \* Date.now() - startTime, in ms
    waitPc,             \* "check", "polling", "sleeping", "returned" or "thrown"
    waitPolls,          \* calls of client.getTransactionBlock started so far
    waitSeen,           \* how the remote service failed the polls so far
    waitError           \* the error thrown: its kind and the timeout it names

waitVars == <<waitTimeout, waitElapsed, waitPc, waitPolls, waitSeen, waitError>>

\* Part VI: one listing request of the raw JSON-RPC handlers
VARIABLES
    listOperation,      \* the listing operation selected
    listCursor,         \* node parameter 'cursor' ("" when the caller gives none)
    listLimit,          \* node parameter 'limit'
    listDescending,     \* node parameter 'descendingOrder'
    listQuery,          \* node parameter 'query': "{}" or a filter
    listParams,         \* the params array of the request body
    listPc              \* "idle", "input" or "built"

listVars == <<listOperation, listCursor, listLimit, listDescending, listQuery,
              listParams, listPc>>

\* Part VII: one item of the objects handler
VARIABLES
    objOperation,       \* the objects operation selected
    objTexts,           \* the texts of its free-form JSON parameters, in order
    objPc,              \* "idle", "input", "requested", "failed" or "done"
    objParams,          \* the parsed values placed in the request ("" before)
    objRequests,        \* calls of this.helpers.httpRequest
    objError            \* message of the error thrown in the try body

objVars == <<objOperation, objTexts, objPc, objParams, objRequests, objError>>

\* Part VIII: the subscription the trigger node asks for
VARIABLES
    trigKind,           \* node parameter 'triggerType'
    trigFilterType,     \* node parameter 'eventFilterType' or 'txFilterType'
    packageId,          \* node parameter 'packageId'
    filterAddress,      \* node parameter 'filterAddress' (also 'senderAddress')
    filterObjectId,     \* node parameter 'filterObjectId'
    subFilter,          \* method and filter of the subscribe request built
    trigPc              \* "idle", "connected" or "subscribed"

trigVars == <<trigKind, trigFilterType, packageId, filterAddress, filterObjectId,
              subFilter, trigPc>>

\* Part IX: the resource selected in the node and the dispatch of execute()
VARIABLES
    selResource,        \* node parameter 'resource'
    selOperation,       \* the operation picked in the dropdown shown ("" if none)
    inputItems,         \* number of input items
    dispatchPc,         \* "idle", "selected", "handler", "operation" or "thrown"
    dispatchHandler,    \* the handler function execute() has called
    dispatchError       \* the error execute() has thrown

dispVars == <<selResource, selOperation, inputItems, dispatchPc, dispatchHandler,
              dispatchError>>

\* Part X: one call of estimateGas
VARIABLES
    gasUsed,            \* effects.gasUsed of the dry run, as decimal amounts
    gasPc,              \* "idle", "dryRun" or "returned"
    gasEstimate         \* the value estimateGas returns

gasVars == <<gasUsed, gasPc, gasEstimate>>

\* Part XI: one call of a function of utils/objectUtils.ts
VARIABLES
    utilFn,             \* the function under call
    utilText,           \* its argument, a string as a sequence of characters
    addrValid,          \* result of isValidSuiAddress
    normOnce,           \* normalizeObjectId(utilText)
    normTwice,          \* normalizeObjectId(normOnce)
    coinBuilt,          \* buildCoinObjectType(utilText)
    coinExtracted,      \* extractCoinType(coinBuilt): a match or null
    utilPc              \* "idle", "input", "once", "built" or "done"

utilVars == <<utilFn, utilText, addrValid, normOnce, normTwice, coinBuilt,
              coinExtracted, utilPc>>

\* Part XII: one round trip through utils/unitConverter.ts
VARIABLES
    unitScaled,         \* the amount x, as the integer x * 10^decimals
    unitDecimals,       \* decimals
    unitSmallest,       \* toSmallestUnit(x, decimals)
    unitText,           \* fromSmallestUnit(unitSmallest, decimals)
    unitPc              \* "idle", "input", "converted" or "done"

unitVars == <<unitScaled, unitDecimals, unitSmallest, unitText, unitPc>>

notWsVars == <<rawVars, sdkVars, netVars, waitVars, listVars, objVars,
               trigVars, dispVars, gasVars, utilVars, unitVars>>
notRawVars == <<wsVars, sdkVars, netVars, waitVars, listVars, objVars,
                trigVars, dispVars, gasVars, utilVars, unitVars>>
notSdkVars == <<wsVars, rawVars, netVars, waitVars, listVars, objVars,
                trigVars, dispVars, gasVars, utilVars, unitVars>>
notNetVars == <<wsVars, rawVars, sdkVars, waitVars, listVars, objVars,
                trigVars, dispVars, gasVars, utilVars, unitVars>>
notWaitVars == <<wsVars, rawVars, sdkVars, netVars, listVars, objVars,
                 trigVars, dispVars, gasVars, utilVars, unitVars>>
notListVars == <<wsVars, rawVars, sdkVars, netVars, waitVars, objVars,
                 trigVars, dispVars, gasVars, utilVars, unitVars>>
notObjVars == <<wsVars, rawVars, sdkVars, netVars, waitVars, listVars,
                trigVars, dispVars, gasVars, utilVars, unitVars>>
notTrigVars == <<wsVars, rawVars, sdkVars, netVars, waitVars, listVars,
                 objVars, dispVars, gasVars, utilVars, unitVars>>
notDispVars == <<wsVars, rawVars, sdkVars, netVars, waitVars, listVars,
                 objVars, trigVars, gasVars, utilVars, unitVars>>
notGasVars == <<wsVars, rawVars, sdkVars, netVars, waitVars, listVars, objVars,
                trigVars, dispVars, utilVars, unitVars>>
notUtilVars == <<wsVars, rawVars, sdkVars, netVars, waitVars, listVars,
                 objVars, trigVars, dispVars, gasVars, unitVars>>
notUnitVars == <<wsVars, rawVars, sdkVars, netVars, waitVars, listVars,
                 objVars, trigVars, dispVars, gasVars, utilVars>>

vars == <<wsVars, rawVars, sdkVars, netVars, waitVars, listVars, objVars,
          trigVars, dispVars, gasVars, utilVars, unitVars>>

\* private field initialisers of the class
maxReconnectAttempts == 5
reconnectDelay == 1000
InitialMessageId == 1

Sockets == 1..MaxSockets
MsgIds == 1..MaxMsgId

\* The subscription id a server hands out for the subscribe request with id k:
\* a fresh one for every request.
SubIdOf(k) == CASE k = 1 -> "sub-1" [] k = 2 -> "sub-2" [] k = 3 -> "sub-3"
                [] k = 4 -> "sub-4" [] OTHER -> "sub-n"
SubIds == {SubIdOf(k) : k \in MsgIds}
\* The result of a successful unsubscribe request.
UnsubResult == "true"

NoCall == [state |-> "none", sock |-> 0, listening |-> FALSE, value |-> NULL]

RECURSIVE Pow2(_)
Pow2(n) == IF n <= 0 THEN 1 ELSE 2 * Pow2(n - 1)

(***************************************************************************)
(* Inbound messages. kind "response" is {id, result} or {id, error} (res   *)
(* is "error" then); kind "notify" is {params: {subscription, result}};    *)
(* kind "garbage" is text JSON.parse rejects.                              *)
(***************************************************************************)
ResponseMsg(id, res) == [kind |-> "response", id |-> id, res |-> res, sub |-> UNDEFINED]
NotifyMsg(sub) == [kind |-> "notify", id |-> 0, res |-> NULL, sub |-> sub]
GarbageMsg == [kind |-> "garbage", id |-> 0, res |-> NULL, sub |-> UNDEFINED]

\* JSON.parse(data.toString()) succeeds
Parses(m) == m.kind # "garbage"

\* response.params?.subscription
ParamsSubscription(m) == IF m.kind = "notify" THEN m.sub ELSE UNDEFINED

\* handleMessage:  response.params?.subscription === this.subscriptionId
\* Variant: every notification is forwarded, whatever subscription it names.
ForwardsEveryNotification(m, tracked) == Parses(m) /\ m.kind = "notify"

HandleMessageForwards(m, tracked) == Parses(m) /\ ParamsSubscription(m) = tracked

\* handleResponse of the call that sent request msgId:
\*   response.id === message.id - 1
ResponseMatches(m, msgId) == m.kind = "response" /\ m.id = msgId - 1

\* handleReconnect: this.reconnectAttempts >= this.maxReconnectAttempts
\* Variant: the attempt counter is compared with > instead of >=.
ReconnectExhaustedLate(attempts) == attempts > maxReconnectAttempts

ReconnectExhausted(attempts) == attempts >= maxReconnectAttempts

\* handleReconnect: this.reconnectDelay * Math.pow(2, this.reconnectAttempts - 1),
\* computed after the increment
BackoffDelay(attempts) == reconnectDelay * Pow2(attempts - 1)

\* close handler of connect():  if (!this.isClosing) this.handleReconnect()
CloseStartsReconnect(closing) == ~closing

\* error handler of connect():  if (!this.isClosing) this.onError(error)
ErrorHandlerReports(closing) == ~closing

\* subscribeEvent / subscribeTransaction:
\*   if (!this.ws || this.ws.readyState !== WebSocket.OPEN) throw ...
SubscribeAllowed(sock, state) == sock # 0 /\ state[sock] = "OPEN"

\* unsubscribe():  if (!this.ws || !this.subscriptionId) return false
UnsubscribeProceeds(sock, tracked) == sock # 0 /\ IsTruthy(tracked)

ErrorRes == "error"

\* What a server answers to a request: a fresh subscription id for a subscribe
\* request, true for an unsubscribe request, or a JSON-RPC error.
ResultsFor(r) ==
    IF r.method = "suix_unsubscribeEvent" THEN {UnsubResult, ErrorRes}
    ELSE {SubIdOf(r.id), ErrorRes}

Requests == {sent[i] : i \in 1..Len(sent)}

\* The messages a server may write to socket s.
Inbound(s) ==
    {ResponseMsg(r.id, res) : <<r, res>> \in
        {<<q, x>> \in Requests \X (SubIds \cup {UnsubResult, ErrorRes}) :
            q.sock = s /\ q.id \notin answered /\ x \in ResultsFor(q)}}
    \cup {NotifyMsg(sub) : sub \in SubIds \cup {NULL}}
    \cup {GarbageMsg}

InitWs ==
    /\ ws = 0
    /\ readyState = [s \in Sockets |-> "NONE"]
    /\ subscriptionId = NULL
    /\ messageId = InitialMessageId
    /\ reconnectAttempts = 0
    /\ isClosing = FALSE
    /\ timers = <<>>
    /\ calls = [k \in MsgIds |-> NoCall]
    /\ sent = <<>>
    /\ answered = {}
    /\ connectCalled = FALSE
    /\ triggerType \in {"event", "transaction"}
    /\ nSockets = 0
    /\ delays = <<>>
    /\ terminalErrors = 0
    /\ forwarded = FALSE
    /\ errored = FALSE

\* Requests sent so far.
RequestsSent == messageId - InitialMessageId

\* In a run that sends requests, the sockets constructed and the requests sent
\* number at most MaxSubWork together; a run that sends none constructs at most
\* MaxSockets sockets.
SocketBudget == IF RequestsSent > 0 THEN MaxSubWork - RequestsSent ELSE MaxSockets

\* connect(): this.ws = new WebSocket(this.wsUrl), handlers attached
NewSocket ==
    /\ nSockets < SocketBudget
    /\ nSockets' = nSockets + 1
    /\ ws' = nSockets + 1
    /\ readyState' = [readyState EXCEPT ![nSockets + 1] = "CONNECTING"]

\* The owner (SuiTrigger.trigger) calls connect() once.
Connect ==
    /\ ~connectCalled
    /\ connectCalled' = TRUE
    /\ NewSocket
    /\ forwarded' = FALSE
    /\ errored' = FALSE
    /\ UNCHANGED <<subscriptionId, messageId, reconnectAttempts, isClosing, timers,
                   calls, sent, answered, delays, terminalErrors,
                   triggerType>>
    /\ UNCHANGED notWsVars

\* 'open' handler
SocketOpen(s) ==
    /\ readyState[s] = "CONNECTING"
    /\ readyState' = [readyState EXCEPT ![s] = "OPEN"]
    /\ reconnectAttempts' = 0
    /\ delays' = <<>>
    /\ forwarded' = FALSE
    /\ errored' = FALSE
    /\ UNCHANGED <<ws, subscriptionId, messageId, isClosing, timers, calls, sent,
                   answered, connectCalled, nSockets, terminalErrors,
                   triggerType>>
    /\ UNCHANGED notWsVars

\* Variant: the 'error' handler starts a reconnect as the 'close' handler does.
SocketErrorAlsoReconnects(s) ==
    /\ readyState[s] \in {"CONNECTING", "OPEN"}
    /\ readyState' = [readyState EXCEPT ![s] = "ERRORED"]
    /\ errored' = ErrorHandlerReports(isClosing)
    /\ forwarded' = FALSE
    /\ IF CloseStartsReconnect(isClosing) /\ ~ReconnectExhausted(reconnectAttempts)
       THEN /\ reconnectAttempts' = reconnectAttempts + 1
            /\ timers' = Append(timers, BackoffDelay(reconnectAttempts + 1))
            /\ delays' = Append(delays, BackoffDelay(reconnectAttempts + 1))
       ELSE UNCHANGED <<reconnectAttempts, timers, delays>>
    /\ UNCHANGED <<ws, subscriptionId, messageId, isClosing, calls, sent, answered,
                   connectCalled, nSockets, terminalErrors, triggerType>>
    /\ UNCHANGED notWsVars

\* 'error' handler; the socket then closes
SocketError(s) ==
    /\ readyState[s] \in {"CONNECTING", "OPEN"}
    /\ readyState' = [readyState EXCEPT ![s] = "ERRORED"]
    /\ errored' = ErrorHandlerReports(isClosing)
    /\ forwarded' = FALSE
    /\ UNCHANGED <<ws, subscriptionId, messageId, reconnectAttempts, isClosing,
                   timers, calls, sent, answered, connectCalled, nSockets, delays,
                   terminalErrors,
                   triggerType>>
    /\ UNCHANGED notWsVars

\* 'close' handler, with the synchronous part of handleReconnect
SocketClose(s) ==
    /\ readyState[s] \in {"OPEN", "ERRORED", "CLOSING"}
    /\ readyState' = [readyState EXCEPT ![s] = "CLOSED"]
    /\ IF ~CloseStartsReconnect(isClosing)
       THEN /\ errored' = FALSE
            /\ UNCHANGED <<reconnectAttempts, timers, delays, terminalErrors>>
       ELSE IF ReconnectExhausted(reconnectAttempts)
       THEN /\ terminalErrors' = terminalErrors + 1
            /\ errored' = TRUE
            /\ UNCHANGED <<reconnectAttempts, timers, delays>>
       ELSE /\ reconnectAttempts' = reconnectAttempts + 1
            /\ timers' = Append(timers, BackoffDelay(reconnectAttempts + 1))
            /\ delays' = Append(delays, BackoffDelay(reconnectAttempts + 1))
            /\ errored' = FALSE
            /\ UNCHANGED terminalErrors
    /\ forwarded' = FALSE
    /\ UNCHANGED <<ws, subscriptionId, messageId, isClosing, calls, sent, answered,
                   connectCalled, nSockets,
                   triggerType>>
    /\ UNCHANGED notWsVars

\* handleReconnect after its await: the backoff timer fires, connect() again
TimerFire(i) ==
    /\ i \in 1..Len(timers)
    /\ timers' = [j \in 1..(Len(timers) - 1) |-> IF j < i THEN timers[j] ELSE timers[j + 1]]
    /\ NewSocket
    /\ forwarded' = FALSE
    /\ errored' = FALSE
    /\ UNCHANGED <<subscriptionId, messageId, reconnectAttempts, isClosing, calls,
                   sent, answered, connectCalled, delays, terminalErrors,
                   triggerType>>
    /\ UNCHANGED notWsVars

\* subscribeEvent(filter) and subscribeTransaction(address): the request is sent,
\* the response listener and the 10 s timer are installed. On a socket that is
\* not open the call throws and changes nothing.
Subscribe(method) ==
    /\ SubscribeAllowed(ws, readyState)
    /\ messageId <= MaxMsgId
    /\ nSockets + RequestsSent < MaxSubWork
    /\ messageId' = messageId + 1
    /\ calls' = [calls EXCEPT ![messageId] =
                    [state |-> "waiting", sock |-> ws, listening |-> TRUE, value |-> NULL]]
    /\ sent' = Append(sent, [id |-> messageId, method |-> method, sock |-> ws,
                              param |-> "filter"])
    /\ forwarded' = FALSE
    /\ errored' = FALSE
    /\ UNCHANGED <<ws, readyState, subscriptionId, reconnectAttempts, isClosing,
                   timers, answered, connectCalled, nSockets, delays,
                   terminalErrors,
                   triggerType>>
    /\ UNCHANGED notWsVars

\* trigger(): if (triggerType === 'event') ... wsClient.subscribeEvent(filter)
SubscribeEvent == triggerType = "event" /\ Subscribe("suix_subscribeEvent")

\* trigger(): else if (triggerType === 'transaction') ... subscribeTransaction(address)
SubscribeTransaction ==
    triggerType = "transaction" /\ Subscribe("suix_subscribeTransaction")

\* The 10 s timer of a subscribe call fires: reject('Subscription timeout').
\* The response listener stays installed.
SubscribeTimeout(k) ==
    /\ calls[k].state = "waiting"
    /\ calls' = [calls EXCEPT ![k].state = "timeout"]
    /\ forwarded' = FALSE
    /\ errored' = FALSE
    /\ UNCHANGED <<ws, readyState, subscriptionId, messageId, reconnectAttempts,
                   isClosing, timers, sent, answered, connectCalled, nSockets,
                   delays, terminalErrors,
                   triggerType>>
    /\ UNCHANGED notWsVars

\* unsubscribe(): this.ws?.send(...) writes the request only on an open socket;
\* on a connecting socket send throws, so the tracked id is not cleared; on a
\* closing or closed socket send fails silently.
Unsubscribe ==
    /\ UnsubscribeProceeds(ws, subscriptionId)
    /\ messageId <= MaxMsgId
    /\ nSockets + RequestsSent < MaxSubWork
    /\ messageId' = messageId + 1
    /\ sent' = IF readyState[ws] = "OPEN"
               THEN Append(sent, [id |-> messageId, method |-> "suix_unsubscribeEvent",
                                  sock |-> ws, param |-> subscriptionId])
               ELSE sent
    /\ subscriptionId' = IF readyState[ws] = "CONNECTING" THEN subscriptionId ELSE NULL
    /\ forwarded' = FALSE
    /\ errored' = FALSE
    /\ UNCHANGED <<ws, readyState, reconnectAttempts, isClosing, timers, calls,
                   answered, connectCalled, nSockets, delays, terminalErrors,
                   triggerType>>
    /\ UNCHANGED notWsVars

\* close(), called by the owner once
Close ==
    /\ connectCalled
    /\ ~isClosing
    /\ isClosing' = TRUE
    /\ ws' = 0
    /\ readyState' = IF ws # 0 /\ readyState[ws] \in {"CONNECTING", "OPEN"}
                     THEN [readyState EXCEPT ![ws] = "CLOSING"]
                     ELSE readyState
    /\ forwarded' = FALSE
    /\ errored' = FALSE
    /\ UNCHANGED <<subscriptionId, messageId, reconnectAttempts, timers, calls,
                   sent, answered, connectCalled, nSockets, delays, terminalErrors,
                   triggerType>>
    /\ UNCHANGED notWsVars

\* A message arrives on the open socket s: the 'message' listeners run in the
\* order they were installed, handleMessage first, then the handleResponse of
\* every subscribe call still listening on s.
Deliver(s, m) ==
    /\ readyState[s] = "OPEN"
    /\ m \in Inbound(s)
    /\ forwarded' = HandleMessageForwards(m, subscriptionId)
    /\ errored' = ~Parses(m)
    /\ answered' = IF m.kind = "response" THEN answered \cup {m.id} ELSE answered
    /\ LET hit == {k \in MsgIds : calls[k].listening /\ calls[k].sock = s
                                    /\ ResponseMatches(m, k)}
       IN /\ calls' = [k \in MsgIds |->
                IF k \notin hit THEN calls[k]
                ELSE [state |-> IF calls[k].state # "waiting" THEN calls[k].state
                                ELSE IF m.res = ErrorRes THEN "rejected" ELSE "resolved",
                      sock |-> calls[k].sock,
                      listening |-> (ws # calls[k].sock),
                      value |-> IF calls[k].state = "waiting" /\ m.res # ErrorRes
                                THEN m.res ELSE calls[k].value]]
          /\ subscriptionId' = IF hit # {} /\ m.res # ErrorRes THEN m.res
                               ELSE subscriptionId
    /\ UNCHANGED <<ws, readyState, messageId, reconnectAttempts, isClosing, timers,
                   sent, connectCalled, nSockets, delays, terminalErrors,
                   triggerType>>
    /\ UNCHANGED notWsVars

NextWs ==
    \/ Connect
    \/ SubscribeEvent
    \/ SubscribeTransaction
    \/ Unsubscribe
    \/ Close
    \/ \E k \in MsgIds : SubscribeTimeout(k)
    \/ \E s \in Sockets : \E m \in Inbound(s) : Deliver(s, m)
    \/ \E s \in Sockets : SocketOpen(s)
    \/ \E s \in Sockets : SocketError(s)
    \/ \E s \in Sockets : SocketClose(s)
    \/ \E i \in 1..MaxSockets : TimerFire(i)

(***************************************************************************)
(* Part I: claims                                                          *)
(***************************************************************************)
\* Every message a server can ever write, whatever the state.
AllMsgs ==
    {ResponseMsg(k, r) : <<k, r>> \in MsgIds \X (SubIds \cup {UnsubResult, ErrorRes})}
    \cup {NotifyMsg(sub) : sub \in SubIds \cup {NULL}}
    \cup {GarbageMsg}

\* The step is the start of the subscribe call that uses request id k.
SubscribeStep(k) == calls[k].state = "none" /\ calls'[k].state = "waiting"

\* C1: a subscribe call on an open socket sends exactly one request with a fresh
\* id k, and when the response carrying that id k and a result arrives before
\* the 10 s timer fires, the call resolves with that result and the client
\* stores it as the tracked subscription id.
C1_SubscribeResolvesWithOwnResponse ==
    [][\A k \in MsgIds :
          /\ SubscribeStep(k) =>
                /\ Len(sent') = Len(sent) + 1
                /\ sent'[Len(sent')].id = k
                /\ \A i \in 1..Len(sent) : sent[i].id # k
          /\ \A s \in Sockets :
                (calls[k].state = "waiting" /\ Deliver(s, ResponseMsg(k, SubIdOf(k)))) =>
                    /\ calls'[k].state = "resolved"
                    /\ calls'[k].value = SubIdOf(k)
                    /\ subscriptionId' = SubIdOf(k)]_vars

\* The reconnect history is the geometric backoff 1000, 2000, 4000, ...
BackoffShape ==
    /\ Len(delays) <= maxReconnectAttempts
    /\ \A i \in 1..Len(delays) : delays[i] = reconnectDelay * Pow2(i - 1)
    /\ \A i \in 1..Len(delays) : \A j \in 1..Len(delays) : i < j => delays[i] < delays[j]

\* Nothing of the client is alive: no socket connecting or open, no timer pending.
Quiescent ==
    /\ connectCalled
    /\ timers = <<>>
    /\ \A s \in Sockets : readyState[s] \in {"NONE", "CLOSED"}

\* C2: after an unexpected close the client makes at most 5 reconnect attempts
\* without an intervening successful open, with delays 1000 * 2^k (k = 0..4),
\* each greater than the one before; when all of them have failed it reports
\* exactly one 'Max reconnection attempts reached' error and makes no further
\* connection attempt.
C2_ReconnectBounded ==
    /\ [](BackoffShape /\ terminalErrors <= 1)
    /\ [](terminalErrors = 1 => Len(delays) = maxReconnectAttempts /\ Quiescent)
    /\ []((Quiescent /\ ~isClosing) => terminalErrors = 1)
    /\ [][terminalErrors >= 1 => nSockets' = nSockets]_vars

\* C2 witness: five failed attempts, then the terminal error.
C2_Witness ==
    /\ terminalErrors = 1
    /\ delays = <<1000, 2000, 4000, 8000, 16000>>
    /\ ~isClosing

\* C3: once close() has been called, no step constructs a WebSocket and no step
\* invokes the error sink.
C3_CloseSuppressesAll ==
    [][isClosing => (nSockets' = nSockets /\ ~errored')]_vars

\* What C4 asks of a step that delivers message m.
ForwardedAsClaimed(m) ==
    /\ forwarded' <=> (ParamsSubscription(m) = subscriptionId)
    /\ m.kind = "response" => ~forwarded'

C19_UnsubscribeSendsTrackedId ==
    [][/\ Unsubscribe =>
            /\ Len(sent') = Len(sent) + 1
            /\ sent'[Len(sent')].method = "suix_unsubscribeEvent"
            /\ sent'[Len(sent')].param = subscriptionId
            /\ subscriptionId' = NULL
       /\ (~UnsubscribeProceeds(ws, subscriptionId) /\ Len(sent') > Len(sent)) =>
            sent'[Len(sent')].method # "suix_unsubscribeEvent"]_vars

\* The sockets over which the server issued subscription id sub.
IssuedOver(sub) == {r.sock : r \in {q \in Requests : SubIdOf(q.id) = sub}}

\* C25: whenever a subscription id is tracked while the client's socket is open,
\* that id was issued over this socket: after a reconnect the client does not
\* keep tracking an id of the dropped socket.
C25_TrackedIdIsOfOpenSocket ==
    (ws # 0 /\ readyState[ws] = "OPEN" /\ subscriptionId \in SubIds) =>
        ws \in IssuedOver(subscriptionId)

\* trigger() awaits connect() and then one subscribe call, the first request of
\* the client; that call has rejected, so trigger() has thrown.
TriggerSetupFailed == calls[InitialMessageId].state \in {"timeout", "rejected"}

\* C26: when trigger() has failed after its socket was opened, no socket is
\* connecting or open and no reconnect timer is pending: nothing of the client
\* outlives the failed setup.
C26_NothingOutlivesFailedSetup ==
    TriggerSetupFailed =>
        /\ \A s \in Sockets : readyState[s] \notin {"CONNECTING", "OPEN"}
        /\ timers = <<>>

\* C27: a subscribe call adopts only the response to its own request: the value
\* the call that sent request k resolved with, which it also stored as the
\* tracked id, is the result the server gave to request k.
C27_AdoptsOnlyOwnResponse ==
    \A k \in MsgIds : calls[k].state = "resolved" => calls[k].value = SubIdOf(k)

\* C28: a subscribe call that has rejected with 'Subscription timeout' has no
\* further effect: a step sets the tracked subscription id only when a call that
\* is still waiting resolves in it.
C28_TimedOutCallIsInert ==
    [][(subscriptionId' # subscriptionId /\ subscriptionId' # NULL) =>
          \E k \in MsgIds : calls[k].state = "waiting" /\ calls'[k].state = "resolved"]_vars

\* C29: while no subscription id is tracked, no inbound message is forwarded to
\* the event sink.
C29_NothingForwardedUntracked ==
    [][subscriptionId = NULL => ~forwarded']_vars

\* The sockets that are connecting or open.
LiveSockets == {s \in Sockets : readyState[s] \in {"CONNECTING", "OPEN"}}

\* C30: with connect() called once by the owner, at every moment at most one
\* socket is connecting or open and at most one reconnect backoff timer is
\* pending, whatever the order of the open, error, close and timer events.
C30_OneSocketOneTimer ==
    /\ Cardinality(LiveSockets) <= 1
    /\ Len(timers) <= 1

\* C30 witness: a reconnect is under way after the first socket went down, with
\* its backoff timer pending or its new socket connecting.
C30_Witness ==
    /\ nSockets >= 2
    /\ readyState[1] = "CLOSED"
    /\ \/ Len(timers) = 1
       \/ Cardinality(LiveSockets) = 1

(***************************************************************************)
(* Part II: the raw JSON-RPC node (Sui.node.ts)                            *)
(***************************************************************************)
MainnetUrl == "https://fullnode.mainnet.sui.io:443"
TestnetUrl == "https://fullnode.testnet.sui.io:443"

\* The credential objects of type suiApi: the properties the type declares.
SuiApiCredentials ==
    [apiBaseUrl : {MainnetUrl, TestnetUrl, ""}, privateKey : {""}, network : {"mainnet"}]

\* obj.name in JavaScript: undefined when the object has no such property
Field(obj, name) == IF name \in DOMAIN obj THEN obj[name] ELSE UNDEFINED

\* JavaScript values a JSON-RPC result can be, by tag: an object, a string, the
\* number 0, false, the empty string, null.
ResultValues == {"{object}", "1000", JsZero, JsFalse, "", NULL}

HttpErrorMessage == "connect ECONNREFUSED"
RpcErrorMessage == "Invalid params"

\* What the remote endpoint does with one request: the HTTP call throws, or it
\* answers { error } or { result }.
Outcomes ==
    {[kind |-> "throw", value |-> HttpErrorMessage],
     [kind |-> "error", value |-> RpcErrorMessage]}
    \cup {[kind |-> "result", value |-> v] : v \in ResultValues}

RECURSIVE SeqsUpTo(_, _)
SeqsUpTo(S, n) ==
    IF n = 0 THEN {<<>>}
    ELSE LET shorter == SeqsUpTo(S, n - 1)
         IN shorter \cup {Append(q, x) : <<q, x>> \in {sq \in shorter : Len(sq) = n - 1} \X S}

\* The json of an output record: the result itself, the whole response envelope
\* { jsonrpc, id, result }, the object a system operation builds around the
\* result, or the error record { error: message }.
ResultJson(v) == [shape |-> "result", of |-> v]
EnvelopeJson(v) == [shape |-> "envelope", of |-> v]
ReshapedJson(v) == [shape |-> "reshaped", of |-> v]
ErrorJson(msg) == [shape |-> "error", of |-> msg]

Resources ==
    {"transactions", "objects", "addresses", "validators", "events", "packages", "system"}

\* url: credentials.baseUrl || 'https://fullnode.mainnet.sui.io:443'
RequestUrl(cred) ==
    IF IsTruthy(Field(cred, "baseUrl")) THEN Field(cred, "baseUrl") ELSE MainnetUrl

\* json: result.result || result  (transactions, objects, validators)
\* json: result with result = parsedResponse.result  (addresses, events, packages)
\* json: result with result = { ...: response.result, timestamp }  (system)
SuccessJson(res, v) ==
    CASE res \in {"transactions", "objects", "validators"} ->
            IF IsTruthy(v) THEN ResultJson(v) ELSE EnvelopeJson(v)
      [] res \in {"addresses", "events", "packages"} -> ResultJson(v)
      [] OTHER -> ReshapedJson(v)

\* The try block of one loop iteration: the request, the error check, the json
TryBody(res, o) ==
    CASE o.kind = "throw" -> [ok |-> FALSE, message |-> o.value, json |-> ErrorJson(o.value)]
      [] o.kind = "error" -> [ok |-> FALSE, message |-> o.value, json |-> ErrorJson(o.value)]
      [] OTHER -> [ok |-> TRUE, message |-> "", json |-> SuccessJson(res, o.value)]

\* Variant: the error record is paired with item 0 whatever the item.
CatchRecordUnpaired(msg, idx) == [json |-> ErrorJson(msg), pairedItem |-> 0]

\* returnData.push({ json: { error: error.message }, pairedItem: { item: i } })
CatchRecord(msg, idx) == [json |-> ErrorJson(msg), pairedItem |-> idx]

\* Variant: the catch block never re-raises.
NeverRethrows(cont) == FALSE

\* catch: if (this.continueOnFail()) { push } else { throw error }
Rethrows(cont) == ~cont

IdleRaw ==
    /\ resource = "none"
    /\ credentials = [apiBaseUrl |-> MainnetUrl, privateKey |-> "", network |-> "mainnet"]
    /\ contOnFail = FALSE
    /\ items = <<>>
    /\ itemIndex = 0
    /\ returnData = <<>>
    /\ httpRequests = <<>>
    /\ rawPc = "idle"
    /\ rawError = NULL

\* The handler has been entered: returnData = [], credentials read, i = 0
InitRaw ==
    /\ resource \in Resources
    /\ credentials \in SuiApiCredentials
    /\ contOnFail \in BOOLEAN
    /\ items \in SeqsUpTo(Outcomes, MaxItems) \ {<<>>}
    /\ itemIndex = 0
    /\ returnData = <<>>
    /\ httpRequests = <<>>
    /\ rawPc = "loop"
    /\ rawError = NULL

\* One iteration of for (let i = 0; i < items.length; i++) { try ... catch ... }
Iteration(res) ==
    /\ rawPc = "loop"
    /\ resource = res
    /\ itemIndex < Len(items)
    /\ LET r == TryBody(res, items[itemIndex + 1])
       IN /\ httpRequests' = Append(httpRequests, [item |-> itemIndex, url |-> RequestUrl(credentials)])
          /\ IF r.ok
             THEN /\ returnData' = Append(returnData, [json |-> r.json, pairedItem |-> itemIndex])
                  /\ itemIndex' = itemIndex + 1
                  /\ UNCHANGED <<rawPc, rawError>>
             ELSE IF Rethrows(contOnFail)
             THEN /\ rawPc' = "thrown"
                  /\ rawError' = r.message
                  /\ UNCHANGED <<returnData, itemIndex>>
             ELSE /\ returnData' = Append(returnData, CatchRecord(r.message, itemIndex))
                  /\ itemIndex' = itemIndex + 1
                  /\ UNCHANGED <<rawPc, rawError>>
    /\ UNCHANGED <<resource, credentials, contOnFail, items>>
    /\ UNCHANGED notRawVars

ExecuteTransactionsOperations == Iteration("transactions")
ExecuteObjectsOperations == Iteration("objects")
ExecuteAddressesOperations == Iteration("addresses")
ExecuteValidatorsOperations == Iteration("validators")
ExecuteEventsOperations == Iteration("events")
ExecutePackagesOperations == Iteration("packages")
ExecuteSystemOperations == Iteration("system")

\* The loop ends: return returnData
ReturnData ==
    /\ rawPc = "loop"
    /\ itemIndex = Len(items)
    /\ rawPc' = "returned"
    /\ UNCHANGED <<resource, credentials, contOnFail, items, itemIndex, returnData,
                   httpRequests, rawError>>
    /\ UNCHANGED notRawVars

NextRaw ==
    \/ ExecuteTransactionsOperations
    \/ ExecuteObjectsOperations
    \/ ExecuteAddressesOperations
    \/ ExecuteValidatorsOperations
    \/ ExecuteEventsOperations
    \/ ExecutePackagesOperations
    \/ ExecuteSystemOperations
    \/ ReturnData

(***************************************************************************)
(* Part II: claims                                                         *)
(***************************************************************************)
\* The remote call of input item k (1-based) fails: it throws or answers { error }.
Fails(k) == items[k].kind \in {"throw", "error"}

\* The first input item whose remote call fails, 0 when none does.
FirstFailing ==
    IF \E k \in 1..Len(items) : Fails(k)
    THEN CHOOSE k \in 1..Len(items) : Fails(k) /\ \A j \in 1..(k - 1) : ~Fails(j)
    ELSE 0

\* C5: with continueOnFail = true the handler never throws; an item whose remote
\* call throws yields the record {error: message} paired with that item and the
\* loop goes on, so the returned output holds exactly one record per input
\* item, in input order, each paired with its own item index, and a request was
\* issued for every item.
C5_ContinueOnFailOneRecordPerItem ==
    contOnFail =>
        /\ rawPc # "thrown"
        /\ Len(returnData) = itemIndex
        /\ \A k \in 1..Len(returnData) :
              /\ returnData[k].pairedItem = k - 1
              /\ Fails(k) => returnData[k].json = ErrorJson(items[k].value)
        /\ rawPc = "returned" =>
              /\ Len(returnData) = Len(items)
              /\ Len(httpRequests) = Len(items)
              /\ \A k \in 1..Len(items) : httpRequests[k].item = k - 1

\* C5 witness: the first item's call threw, the second item was still processed.
C5_Witness ==
    /\ contOnFail
    /\ rawPc = "returned"
    /\ Len(items) >= 2
    /\ items[1].kind = "throw"
    /\ items[2].kind = "result"
    /\ Len(returnData) = Len(items)

\* C6: with continueOnFail = false the first item whose remote call fails aborts
\* the handler: its error is re-raised, no request is issued for a later item,
\* and the handler returns no output.
C6_FailFastAborts ==
    (~contOnFail /\ rawPc \in {"loop", "returned", "thrown"} /\ FirstFailing # 0) =>
        /\ rawPc # "returned"
        /\ Len(httpRequests) <= FirstFailing
        /\ \A k \in 1..Len(httpRequests) : httpRequests[k].item < FirstFailing
        /\ rawPc = "thrown" =>
              /\ rawError = items[FirstFailing].value
              /\ Len(httpRequests) = FirstFailing
              /\ itemIndex = FirstFailing - 1

\* C6 witness: the first of several items failed and the handler threw.
C6_Witness ==
    /\ ~contOnFail
    /\ rawPc = "thrown"
    /\ Len(items) >= 2
    /\ FirstFailing = 1
    /\ Len(httpRequests) = 1

\* C7: in every handler a response with an error field makes the operation fail,
\* and a response with only a result field yields a record whose json is
\* exactly that result, for every result value.
C7_ResultUnmodified ==
    \A k \in 1..Len(returnData) :
        /\ items[k].kind = "error" => returnData[k].json.shape = "error"
        /\ items[k].kind = "result" => returnData[k].json = ResultJson(items[k].value)

\* C10: every request goes to the credential's API Base URL, and to the built-in
\* mainnet URL only when that is empty.
C10_RequestsUseCredentialUrl ==
    \A k \in 1..Len(httpRequests) :
        httpRequests[k].url = IF credentials.apiBaseUrl = "" THEN MainnetUrl
                              ELSE credentials.apiBaseUrl

(***************************************************************************)
(* Part III: the SDK-based operations (the actions directory)              *)
(***************************************************************************)
\* Statements of an operation that can end it or reach the network.
RequireKey(msg) == [do |-> "requireKey", msg |-> msg]
RequireAddress(msg) == [do |-> "requireAddress", msg |-> msg]
Validate(msg) == [do |-> "validate", msg |-> msg]
ParseParams == [do |-> "parse", msg |-> "SyntaxError"]
BuildTx == [do |-> "build", msg |-> ""]
SetSender == [do |-> "setSender", msg |-> "SDK: invalid sender"]
Remote == [do |-> "remote", msg |-> "SDK: Missing transaction sender"]

RemoteErrorMessage == "RPC request failed"

\* executeTransactionOperation: the cases that build a transaction
TransactionProgram(operation) ==
    CASE operation \in {"transferSui", "transferObject", "payAllSui"} ->
            <<RequireKey("Private key is required for transactions"), BuildTx, Remote>>
      [] operation = "paySui" ->
            <<RequireKey("Private key is required for transactions"),
              Validate("At least one recipient is required"), BuildTx, Remote>>
      [] operation = "dryRun" ->
            <<RequireAddress("Address is required for dry run"), BuildTx, Remote>>
      [] operation = "estimateGas" ->
            <<RequireAddress("Address is required for gas estimation"), BuildTx, Remote>>

\* executeContractOperation: the arguments are processed and the move call is
\* built before the switch on the operation
ContractProgram(operation) ==
    <<ParseParams, BuildTx>> \o
    CASE operation = "moveCall" ->
            <<RequireKey("Private key is required for Move calls"), Remote>>
      [] operation = "dryRunMoveCall" ->
            <<RequireAddress("Address is required for dry run"), Remote>>
      [] operation = "devInspect" ->
            <<RequireAddress("Address is required for dev inspect"), Remote>>

\* executeStakingOperation
StakingProgram(operation) ==
    CASE operation = "stakeSui" ->
            <<RequireKey("Private key is required for staking"),
              Validate("Minimum stake amount is 1 SUI"), BuildTx, Remote>>
      [] operation = "unstakeSui" ->
            <<RequireKey("Private key is required for unstaking"), BuildTx, Remote>>

\* executeNftOperation
NftProgram(operation) ==
    <<RequireKey("Private key is required for NFT transfer"), BuildTx, Remote>>

\* executeCoinOperation
CoinProgram(operation) ==
    CASE operation = "mergeCoins" ->
            <<RequireKey("Private key is required for transactions"), BuildTx, Remote>>
      [] operation = "splitCoin" ->
            <<RequireKey("Private key is required for transactions"), ParseParams,
              BuildTx, Remote>>

\* executePtbOperation
PtbProgram(operation) ==
    CASE operation = "multiOperation" ->
            <<Validate("At least one operation is required"), ParseParams, BuildTx,
              RequireKey("Private key is required to execute transactions"), Remote>>
      [] operation = "buildAndExecute" ->
            <<ParseParams, BuildTx,
              RequireKey("Private key is required to execute transactions"), Remote>>
      [] operation = "buildAndDryRun" ->
            <<ParseParams, BuildTx, SetSender, Remote>>

SdkOperations ==
    {[resource |-> "transaction", operation |-> o] :
        o \in {"transferSui", "transferObject", "paySui", "payAllSui", "dryRun", "estimateGas"}}
    \cup {[resource |-> "contract", operation |-> o] :
        o \in {"moveCall", "dryRunMoveCall", "devInspect"}}
    \cup {[resource |-> "staking", operation |-> o] : o \in {"stakeSui", "unstakeSui"}}
    \cup {[resource |-> "nft", operation |-> o] : o \in {"transferNft"}}
    \cup {[resource |-> "coin", operation |-> o] : o \in {"mergeCoins", "splitCoin"}}
    \cup {[resource |-> "ptb", operation |-> o] :
        o \in {"multiOperation", "buildAndExecute", "buildAndDryRun"}}

Program(op) ==
    CASE op.resource = "transaction" -> TransactionProgram(op.operation)
      [] op.resource = "contract" -> ContractProgram(op.operation)
      [] op.resource = "staking" -> StakingProgram(op.operation)
      [] op.resource = "nft" -> NftProgram(op.operation)
      [] op.resource = "coin" -> CoinProgram(op.operation)
      [] op.resource = "ptb" -> PtbProgram(op.operation)

SdkInputs == {"valid", "empty", "malformed"}

IdleSdk ==
    /\ sdkOp = [resource |-> "none", operation |-> "none"]
    /\ hasKey = FALSE
    /\ sdkInput = "valid"
    /\ sdkPc = 1
    /\ sdkStatus = "idle"
    /\ sdkError = NULL
    /\ remoteCalls = 0

\* After initializeSuiFromContext: client created, keypair and address derived
\* if the credentials carry a private key
InitSdk ==
    /\ sdkOp \in SdkOperations
    /\ hasKey \in BOOLEAN
    /\ sdkInput \in SdkInputs
    /\ sdkPc = 1
    /\ sdkStatus = "running"
    /\ sdkError = NULL
    /\ remoteCalls = 0

\* The statement the operation is at
Current == Program(sdkOp)[sdkPc]

At(kind) == sdkStatus = "running" /\ sdkPc <= Len(Program(sdkOp)) /\ Current.do = kind

Throw(msg) ==
    /\ sdkStatus' = "thrown"
    /\ sdkError' = msg
    /\ UNCHANGED <<sdkPc, remoteCalls>>

Proceed ==
    /\ sdkPc' = sdkPc + 1
    /\ UNCHANGED <<sdkStatus, sdkError, remoteCalls>>

\* if (!keypair || !address) throw new Error('Private key is required ...')
RequireKeyStep ==
    /\ At("requireKey")
    /\ IF hasKey THEN Proceed ELSE Throw(Current.msg)
    /\ UNCHANGED <<sdkOp, hasKey, sdkInput>>
    /\ UNCHANGED notSdkVars

\* if (!address) throw new Error('Address is required ...')
RequireAddressStep ==
    /\ At("requireAddress")
    /\ IF hasKey THEN Proceed ELSE Throw(Current.msg)
    /\ UNCHANGED <<sdkOp, hasKey, sdkInput>>
    /\ UNCHANGED notSdkVars

\* a required list is empty, an amount is below the minimum
ValidateStep ==
    /\ At("validate")
    /\ IF sdkInput = "empty" THEN Throw(Current.msg) ELSE Proceed
    /\ UNCHANGED <<sdkOp, hasKey, sdkInput>>
    /\ UNCHANGED notSdkVars

\* JSON.parse / BigInt of a parameter
ParseStep ==
    /\ At("parse")
    /\ IF sdkInput = "malformed" THEN Throw(Current.msg) ELSE Proceed
    /\ UNCHANGED <<sdkOp, hasKey, sdkInput>>
    /\ UNCHANGED notSdkVars

\* new Transaction(), the commands, setGasBudget: local
BuildStep ==
    /\ At("build")
    /\ Proceed
    /\ UNCHANGED <<sdkOp, hasKey, sdkInput>>
    /\ UNCHANGED notSdkVars

\* tx.setSender(address!): with an undefined address the SDK may throw or not
SetSenderStep ==
    /\ At("setSender")
    /\ \/ Proceed
       \/ ~hasKey /\ Throw(Current.msg)
    /\ UNCHANGED <<sdkOp, hasKey, sdkInput>>
    /\ UNCHANGED notSdkVars

\* signAndExecuteTransaction, dryRunTransaction, devInspect, estimateGas: the SDK
\* resolves and builds the transaction with the client and sends it. Without a
\* sender the SDK may refuse before it sends anything.
RemoteStep ==
    /\ At("remote")
    /\ \/ /\ remoteCalls' = remoteCalls + 1
          /\ sdkStatus' = "returned"
          /\ UNCHANGED <<sdkPc, sdkError>>
       \/ /\ remoteCalls' = remoteCalls + 1
          /\ sdkStatus' = "thrown"
          /\ sdkError' = RemoteErrorMessage
          /\ UNCHANGED sdkPc
       \/ ~hasKey /\ Throw(Current.msg)
    /\ UNCHANGED <<sdkOp, hasKey, sdkInput>>
    /\ UNCHANGED notSdkVars

NextSdk ==
    \/ RequireKeyStep
    \/ RequireAddressStep
    \/ ValidateStep
    \/ ParseStep
    \/ BuildStep
    \/ SetSenderStep
    \/ RemoteStep

(***************************************************************************)
(* Part III: claims                                                        *)
(***************************************************************************)
\* The operations that sign and submit a transaction.
SigningOperations ==
    {op \in SdkOperations :
        \/ op.resource \in {"staking", "nft", "coin"}
        \/ op.operation \in {"transferSui", "transferObject", "paySui", "payAllSui",
                             "moveCall", "multiOperation", "buildAndExecute"}}

\* The operations that need the sender address but no signature.
AddressOperations == SdkOperations \ SigningOperations

PrivateKeyMessages ==
    {"Private key is required for transactions", "Private key is required for Move calls",
     "Private key is required for staking", "Private key is required for unstaking",
     "Private key is required for NFT transfer",
     "Private key is required to execute transactions"}

\* The errors an operation raises itself, before the SDK is asked to do anything.
OwnMessages ==
    PrivateKeyMessages
    \cup {"Address is required for dry run", "Address is required for gas estimation",
          "Address is required for dev inspect", "At least one recipient is required",
          "Minimum stake amount is 1 SUI", "At least one operation is required",
          "SyntaxError"}

\* C8: a signing operation run without a private key issues no remote call and
\* ends with a 'Private key is required' error.
C8_SigningNeedsKey ==
    (sdkOp \in SigningOperations /\ ~hasKey) =>
        /\ remoteCalls = 0
        /\ sdkStatus # "returned"
        /\ sdkStatus = "thrown" => sdkError \in PrivateKeyMessages

\* C9: an operation that needs the sender address, run without a private key,
\* issues no remote call and ends with an error of its own, raised before the
\* SDK is asked to build or send anything.
C9_AddressNeedsKey ==
    (sdkOp \in AddressOperations /\ ~hasKey) =>
        /\ remoteCalls = 0
        /\ sdkStatus # "returned"
        /\ sdkStatus = "thrown" => sdkError \in OwnMessages

(***************************************************************************)
(* Part IV: credentials, network endpoints and the faucet                  *)
(***************************************************************************)
\* A URL is its scheme and the rest; the empty string is EmptyUrl.
Url(scheme, rest) == [scheme |-> scheme, rest |-> rest]
EmptyUrl == Url("", "")
\* No client has been created.
NoUrl == Url("none", "")

\* NETWORKS
NetworkTable ==
    [mainnet |-> [rpcUrl |-> Url("https", "fullnode.mainnet.sui.io:443"),
                  wsUrl |-> Url("wss", "fullnode.mainnet.sui.io"),
                  faucetUrl |-> EmptyUrl],
     testnet |-> [rpcUrl |-> Url("https", "fullnode.testnet.sui.io:443"),
                  wsUrl |-> Url("wss", "fullnode.testnet.sui.io"),
                  faucetUrl |-> Url("https", "faucet.testnet.sui.io/gas")],
     devnet |-> [rpcUrl |-> Url("https", "fullnode.devnet.sui.io:443"),
                 wsUrl |-> Url("wss", "fullnode.devnet.sui.io"),
                 faucetUrl |-> Url("https", "faucet.devnet.sui.io/gas")],
     localnet |-> [rpcUrl |-> Url("http", "127.0.0.1:9000"),
                   wsUrl |-> Url("ws", "127.0.0.1:9000"),
                   faucetUrl |-> Url("http", "127.0.0.1:9123/gas")]]

NetworkOptions == {"mainnet", "testnet", "devnet", "localnet", "custom"}

\* url.replace(/^https?/, 'wss').replace(/^http/, 'ws')
ToWsScheme(u) ==
    LET first == IF u.scheme \in {"http", "https"} THEN Url("wss", u.rest) ELSE u
    IN IF first.scheme = "http" THEN Url("ws", first.rest) ELSE first

\* getNetworkConfig(network, customRpcUrl)
GetNetworkConfig(network, customRpcUrl) ==
    IF network = "custom" /\ customRpcUrl # EmptyUrl
    THEN [rpcUrl |-> customRpcUrl, wsUrl |-> ToWsScheme(customRpcUrl), faucetUrl |-> EmptyUrl]
    ELSE IF network \in DOMAIN NetworkTable THEN NetworkTable[network]
    ELSE NetworkTable["mainnet"]

\* getRpcUrl(credentials)
GetRpcUrl(cred) ==
    IF cred.network = "custom" /\ cred.customRpcUrl # EmptyUrl
    THEN cred.customRpcUrl
    ELSE GetNetworkConfig(cred.network, EmptyUrl).rpcUrl

\* getWsUrl(credentials)
GetWsUrl(cred) ==
    IF cred.network = "custom" /\ cred.customRpcUrl # EmptyUrl
    THEN ToWsScheme(cred.customRpcUrl)
    ELSE GetNetworkConfig(cred.network, EmptyUrl).wsUrl

\* The credential sets of type suiNetwork
SuiNetworkCredentials ==
    [network : NetworkOptions,
     customRpcUrl : {EmptyUrl, Url("https", "rpc.example.com"), Url("http", "10.0.0.1:9000")},
     faucetUrl : {EmptyUrl, Url("https", "faucet.example.com/gas")}]

\* Variant: a configured faucet URL is used before the network is looked at.
FaucetPlanUrlFirst(cred, hasAddress) ==
    IF ~hasAddress THEN [ok |-> FALSE, message |-> "Address is required", url |-> NoUrl]
    ELSE IF cred.faucetUrl # EmptyUrl THEN [ok |-> TRUE, message |-> "", url |-> cred.faucetUrl]
    ELSE [ok |-> FALSE, message |-> "Faucet is not available on mainnet", url |-> NoUrl]

\* requestFaucet up to the request: the error it throws, or the url it posts to
FaucetPlan(cred, hasAddress) ==
    IF ~hasAddress THEN [ok |-> FALSE, message |-> "Address is required", url |-> NoUrl]
    ELSE IF cred.network = "mainnet"
    THEN [ok |-> FALSE, message |-> "Faucet is not available on mainnet", url |-> NoUrl]
    ELSE IF cred.faucetUrl # EmptyUrl THEN [ok |-> TRUE, message |-> "", url |-> cred.faucetUrl]
    ELSE IF cred.network \in {"testnet", "devnet", "localnet"}
    THEN [ok |-> TRUE, message |-> "", url |-> NetworkTable[cred.network].faucetUrl]
    ELSE [ok |-> FALSE, message |-> "Faucet URL is required for custom networks", url |-> NoUrl]

FaucetHttpError == "Request failed with status code 429"

IdleNet ==
    /\ netCredentials = [network |-> "mainnet", customRpcUrl |-> EmptyUrl, faucetUrl |-> EmptyUrl]
    /\ faucetAddress = FALSE
    /\ rpcUrl = NoUrl
    /\ wsUrl = NoUrl
    /\ faucetStatus = "idle"
    /\ faucetError = NULL
    /\ faucetPosts = <<>>

InitNet ==
    /\ netCredentials \in SuiNetworkCredentials
    /\ faucetAddress \in BOOLEAN
    /\ rpcUrl = NoUrl
    /\ wsUrl = NoUrl
    /\ faucetStatus = "idle"
    /\ faucetError = NULL
    /\ faucetPosts = <<>>

\* createSuiClient(credentials): new SuiClient({ url: getRpcUrl(credentials) })
CreateSuiClient ==
    /\ rpcUrl = NoUrl
    /\ rpcUrl' = GetRpcUrl(netCredentials)
    /\ UNCHANGED <<netCredentials, faucetAddress, wsUrl, faucetStatus, faucetError, faucetPosts>>
    /\ UNCHANGED notNetVars

\* createWebSocketClient(credentials, onEvent, onError)
CreateWebSocketClient ==
    /\ wsUrl = NoUrl
    /\ wsUrl' = GetWsUrl(netCredentials)
    /\ UNCHANGED <<netCredentials, faucetAddress, rpcUrl, faucetStatus, faucetError, faucetPosts>>
    /\ UNCHANGED notNetVars

\* executeAccountOperation, case 'requestFaucet', after initializeSuiFromContext
RequestFaucet ==
    /\ rpcUrl # NoUrl
    /\ faucetStatus = "idle"
    /\ LET plan == FaucetPlan(netCredentials, faucetAddress)
       IN IF ~plan.ok
          THEN /\ faucetStatus' = "thrown"
               /\ faucetError' = plan.message
               /\ UNCHANGED faucetPosts
          ELSE /\ faucetPosts' = Append(faucetPosts, plan.url)
               /\ \/ faucetStatus' = "returned" /\ UNCHANGED faucetError
                  \/ faucetStatus' = "thrown" /\ faucetError' = FaucetHttpError
    /\ UNCHANGED <<netCredentials, faucetAddress, rpcUrl, wsUrl>>
    /\ UNCHANGED notNetVars

NextNet ==
    \/ CreateSuiClient
    \/ CreateWebSocketClient
    \/ RequestFaucet

(***************************************************************************)
(* Part IV: claims                                                         *)
(***************************************************************************)
\* C11: a credential set with network 'custom' and an empty custom RPC URL never
\* yields an HTTP or WebSocket client: no client url is ever derived from it.
C11_CustomNeedsUrl ==
    (netCredentials.network = "custom" /\ netCredentials.customRpcUrl = EmptyUrl) =>
        (rpcUrl = NoUrl /\ wsUrl = NoUrl)

\* C12: on mainnet requestFaucet sends no HTTP request and never returns: it
\* throws, whatever faucet URL the credentials carry.
C12_NoFaucetOnMainnet ==
    netCredentials.network = "mainnet" =>
        /\ faucetPosts = <<>>
        /\ faucetStatus # "returned"
        /\ faucetStatus = "thrown" =>
              faucetError \in {"Address is required", "Faucet is not available on mainnet"}

\* C12 witness: mainnet credentials that carry a faucet URL; the request was refused.
C12_Witness ==
    /\ netCredentials.network = "mainnet"
    /\ netCredentials.faucetUrl # EmptyUrl
    /\ faucetAddress
    /\ faucetStatus = "thrown"
    /\ faucetError = "Faucet is not available on mainnet"
    /\ faucetPosts = <<>>

(***************************************************************************)
(* Part V: waitForTransaction (transport/suiClient.ts)                     *)
(***************************************************************************)
DefaultWaitTimeout == 60000
DefaultPollInterval == 1000

\* The timeouts a caller passes, 0 among them
WaitTimeouts == {1000 * n : n \in 0..MaxWaitSeconds}
\* How long one call of client.getTransactionBlock takes
PollDurations == {1000 * n : n \in 0..MaxPollSeconds}

\* What the remote service does with one poll: it returns the transaction, it
\* does not know the digest yet, or it rejects the request (invalid digest,
\* not authorised)
PollOutcomes == {"success", "pending", "rejected"}

NoWaitError == [kind |-> "none", ms |-> 0]
\* new Error(`Transaction ${digest} not confirmed within ${timeout}ms`)
NotConfirmedError(ms) == [kind |-> "timeout", ms |-> ms]

\* const timeout = options?.timeout || 60000
EffectiveTimeout(given) == IF given = 0 THEN DefaultWaitTimeout ELSE given

\* while (Date.now() - startTime < timeout)
LoopContinues(elapsed, timeout) == elapsed < timeout

IdleWait ==
    /\ waitTimeout = 0
    /\ waitElapsed = 0
    /\ waitPc = "idle"
    /\ waitPolls = 0
    /\ waitSeen = {}
    /\ waitError = NoWaitError

\* waitForTransaction(client, digest, { timeout }) has read its options and the clock
InitWait ==
    /\ waitTimeout \in WaitTimeouts
    /\ waitElapsed = 0
    /\ waitPc = "check"
    /\ waitPolls = 0
    /\ waitSeen = {}
    /\ waitError = NoWaitError

\* The loop condition: start the next poll, or leave the loop and throw
WaitCheck ==
    /\ waitPc = "check"
    /\ IF LoopContinues(waitElapsed, EffectiveTimeout(waitTimeout))
       THEN /\ waitPc' = "polling"
            /\ waitPolls' = waitPolls + 1
            /\ UNCHANGED waitError
       ELSE /\ waitPc' = "thrown"
            /\ waitError' = NotConfirmedError(EffectiveTimeout(waitTimeout))
            /\ UNCHANGED waitPolls
    /\ UNCHANGED <<waitTimeout, waitElapsed, waitSeen>>
    /\ UNCHANGED notWaitVars

\* await client.getTransactionBlock(...): return result, or catch and go to sleep
WaitPoll ==
    /\ waitPc = "polling"
    /\ \E d \in PollDurations : \E o \in PollOutcomes :
          /\ waitElapsed' = waitElapsed + d
          /\ IF o = "success"
             THEN waitPc' = "returned" /\ UNCHANGED waitSeen
             ELSE waitPc' = "sleeping" /\ waitSeen' = waitSeen \cup {o}
    /\ UNCHANGED <<waitTimeout, waitPolls, waitError>>
    /\ UNCHANGED notWaitVars

\* await new Promise((resolve) => setTimeout(resolve, pollInterval))
WaitSleep ==
    /\ waitPc = "sleeping"
    /\ waitElapsed' = waitElapsed + DefaultPollInterval
    /\ waitPc' = "check"
    /\ UNCHANGED <<waitTimeout, waitPolls, waitSeen, waitError>>
    /\ UNCHANGED notWaitVars

NextWait ==
    \/ WaitCheck
    \/ WaitPoll
    \/ WaitSleep

(***************************************************************************)
(* Part V: claims                                                          *)
(***************************************************************************)
\* C13: waitForTransaction starts a poll only while the caller's timeout has not
\* elapsed; it ends by returning the first successful result or, once the
\* caller's timeout has elapsed, by throwing the 'not confirmed within
\* <timeout>ms' error naming that timeout.
C13_WaitEndsAtCallerTimeout ==
    /\ [][(waitPc = "check" /\ waitPc' = "polling") => waitElapsed < waitTimeout]_vars
    /\ [](waitPc = "thrown" =>
            /\ waitError = NotConfirmedError(waitTimeout)
            /\ waitElapsed >= waitTimeout)

\* C14: the error of a wait in which the remote service rejected every poll is
\* not the timeout error.
C14_RejectionIsNotTimeout ==
    (waitPc = "thrown" /\ waitSeen = {"rejected"}) => waitError.kind # "timeout"

(***************************************************************************)
(* Part VI: positional parameters of the listing requests (Sui.node.ts)    *)
(***************************************************************************)
DefaultLimit == 50

\* JSON values of a params array
JsonStr(s) == [type |-> "string", str |-> s, num |-> 0]
JsonNum(n) == [type |-> "number", str |-> "", num |-> n]
JsonBool(b) == [type |-> "boolean", str |-> "", num |-> IF b THEN 1 ELSE 0]
JsonNull == [type |-> "null", str |-> "", num |-> 0]
JsonObj(s) == [type |-> "object", str |-> s, num |-> 0]

\* The operations that put cursor and limit into a positional params array
ListingOperations ==
    {"getOwnedObjects", "queryObjects", "getDynamicFields", "getCoins",
     "getAllCoins", "queryEvents", "getEpochs", "getCheckpoints"}

Cursors == {"", "0xc1"}
Limits == {0, DefaultLimit} \cup (1..MaxLimit)
Queries == {"{}", "{\"MatchAll\":[]}"}

\* The arguments of each method that precede the cursor
LeadingParams(op, query) ==
    CASE op = "getOwnedObjects" -> <<JsonStr("owner"), JsonObj(query)>>
      [] op = "queryObjects" -> <<JsonObj(query)>>
      [] op = "getDynamicFields" -> <<JsonStr("parentObjectId")>>
      [] op = "getCoins" -> <<JsonStr("owner"), JsonStr("coinType")>>
      [] op = "getAllCoins" -> <<JsonStr("owner")>>
      [] op = "queryEvents" -> <<JsonObj(query)>>
      [] OTHER -> <<>>

\* The position of the cursor in the method's argument list; the limit follows
CursorPosition(op) == Len(LeadingParams(op, "{}")) + 1
LimitPosition(op) == CursorPosition(op) + 1

\* cursor || null
CursorOrNull(cursor) == IF cursor # "" THEN JsonStr(cursor) ELSE JsonNull

\* if (cursor) params.push(cursor); else params.push(null); params.push(limit)
PushCursorOrNullThenLimit(lead, cursor, limit) ==
    lead \o <<CursorOrNull(cursor), JsonNum(limit)>>

\* if (cursor) params.push(cursor); if (limit) params.push(limit)
PushIfTruthy(lead, cursor, limit) ==
    lead \o (IF cursor # "" THEN <<JsonStr(cursor)>> ELSE <<>>)
         \o (IF limit # 0 THEN <<JsonNum(limit)>> ELSE <<>>)

\* getOwnedObjects: query, cursor and limit are added only when they are not
\* all at their defaults
OwnedObjectsParams(query, cursor, limit) ==
    IF query # "{}" \/ cursor # "" \/ limit # DefaultLimit
    THEN <<JsonStr("owner"), JsonObj(query)>>
            \o (IF cursor # "" \/ limit # DefaultLimit
                THEN <<CursorOrNull(cursor), JsonNum(limit)>>
                ELSE <<>>)
    ELSE <<JsonStr("owner")>>

\* queryEvents: [query, cursor || null, limit, descendingOrder].filter(...)
QueryEventsParams(query, cursor, limit, descending) ==
    <<JsonObj(query)>>
        \o (IF cursor # "" THEN <<CursorOrNull(cursor)>> ELSE <<>>)
        \o (IF limit > 0 THEN <<JsonNum(limit)>> ELSE <<>>)
        \o <<JsonBool(descending)>>

ListingParams(op, query, cursor, limit, descending) ==
    CASE op = "getOwnedObjects" -> OwnedObjectsParams(query, cursor, limit)
      [] op = "queryObjects" ->
            PushCursorOrNullThenLimit(LeadingParams(op, query), cursor, limit)
                \o (IF descending THEN <<JsonBool(descending)>> ELSE <<>>)
      [] op = "getDynamicFields" ->
            PushCursorOrNullThenLimit(LeadingParams(op, query), cursor, limit)
      [] op \in {"getCoins", "getAllCoins"} ->
            PushIfTruthy(LeadingParams(op, query), cursor, limit)
      [] op = "queryEvents" -> QueryEventsParams(query, cursor, limit, descending)
      [] OTHER ->
            PushCursorOrNullThenLimit(LeadingParams(op, query), cursor, limit)
                \o <<JsonBool(descending)>>

IdleList ==
    /\ listOperation = "getCoins"
    /\ listCursor = ""
    /\ listLimit = DefaultLimit
    /\ listDescending = FALSE
    /\ listQuery = "{}"
    /\ listParams = <<>>
    /\ listPc = "idle"

\* The node parameters of one item have been read
InitList ==
    /\ listOperation \in ListingOperations
    /\ listCursor \in Cursors
    /\ listLimit \in Limits
    /\ listDescending \in BOOLEAN
    /\ listQuery \in Queries
    /\ listParams = <<>>
    /\ listPc = "input"

\* The handler builds the request body
BuildListingRequest ==
    /\ listPc = "input"
    /\ listParams' = ListingParams(listOperation, listQuery, listCursor,
                                   listLimit, listDescending)
    /\ listPc' = "built"
    /\ UNCHANGED <<listOperation, listCursor, listLimit, listDescending, listQuery>>
    /\ UNCHANGED notListVars

NextList == BuildListingRequest

(***************************************************************************)
(* Part VI: claims                                                         *)
(***************************************************************************)
\* C15: in a listing request, whatever stands in the cursor position is the
\* caller's cursor or null, and whatever stands in the limit position is the
\* limit.
C15_CursorAndLimitInPlace ==
    listPc = "built" =>
        /\ Len(listParams) >= CursorPosition(listOperation) =>
              listParams[CursorPosition(listOperation)] = CursorOrNull(listCursor)
        /\ Len(listParams) >= LimitPosition(listOperation) =>
              listParams[LimitPosition(listOperation)] = JsonNum(listLimit)

(***************************************************************************)
(* Part VII: free-form JSON parameters of the objects handler              *)
(***************************************************************************)
\* Texts a caller types into a JSON parameter
ValidJsonTexts == {"{}", "{\"showContent\":true}"}
JsonTexts == ValidJsonTexts \cup {"invalid-json", ""}

\* JSON.parse(text): the value, or a SyntaxError
JsonParse(text) ==
    IF text \in ValidJsonTexts
    THEN [ok |-> TRUE, value |-> text]
    ELSE [ok |-> FALSE, value |-> ""]

\* The operations of executeObjectsOperations that parse a JSON parameter, with
\* the number of parameters each parses
JsonOperations ==
    {"getObject", "multiGetObjects", "getOwnedObjects", "queryObjects",
     "getDynamicFieldObject"}
JsonParamCount(op) == IF op = "multiGetObjects" THEN 2 ELSE 1

\* The message of the NodeOperationError of each operation's catch block; ""
\* where the catch block assigns {} instead of throwing
InvalidJsonMessage(op) ==
    CASE op = "multiGetObjects" -> "Invalid JSON format in parameters"
      [] op = "queryObjects" -> "Invalid JSON format in query parameter"
      [] op = "getDynamicFieldObject" -> "Invalid JSON format in name parameter"
      [] OTHER -> ""

InvalidJsonMessages ==
    {InvalidJsonMessage(op) : op \in JsonOperations} \ {""}

\* try { parsed = JSON.parse(text) } catch { ... } of each operation
ParseParameter(op, text) ==
    IF JsonParse(text).ok
    THEN [thrown |-> FALSE, value |-> JsonParse(text).value]
    ELSE IF InvalidJsonMessage(op) = ""
         THEN [thrown |-> FALSE, value |-> "{}"]
         ELSE [thrown |-> TRUE, value |-> ""]

ObjResponses == {"result", "rpcError", "httpError"}

IdleObj ==
    /\ objOperation = "getObject"
    /\ objTexts = <<"{}">>
    /\ objPc = "idle"
    /\ objParams = <<"">>
    /\ objRequests = 0
    /\ objError = ""

\* The node parameters of the item have been read
InitObj ==
    /\ objOperation \in JsonOperations
    /\ objTexts \in [1..JsonParamCount(objOperation) -> JsonTexts]
    /\ objPc = "input"
    /\ objParams = [k \in 1..JsonParamCount(objOperation) |-> ""]
    /\ objRequests = 0
    /\ objError = ""

\* The parameters are parsed; unless that throws, the request is issued
ParseAndRequest ==
    /\ objPc = "input"
    /\ LET parsed == [k \in DOMAIN objTexts |-> ParseParameter(objOperation, objTexts[k])]
       IN IF \E k \in DOMAIN parsed : parsed[k].thrown
          THEN /\ objPc' = "failed"
               /\ objError' = InvalidJsonMessage(objOperation)
               /\ UNCHANGED <<objParams, objRequests>>
          ELSE /\ objPc' = "requested"
               /\ objParams' = [k \in DOMAIN parsed |-> parsed[k].value]
               /\ objRequests' = objRequests + 1
               /\ UNCHANGED objError
    /\ UNCHANGED <<objOperation, objTexts>>
    /\ UNCHANGED notObjVars

\* await this.helpers.httpRequest(...) settles; if (result.error) throw
ObjResponse ==
    /\ objPc = "requested"
    /\ \E r \in ObjResponses :
          IF r = "result"
          THEN objPc' = "done" /\ UNCHANGED objError
          ELSE objPc' = "failed" /\ objError' = r
    /\ UNCHANGED <<objOperation, objTexts, objParams, objRequests>>
    /\ UNCHANGED notObjVars

NextObj ==
    \/ ParseAndRequest
    \/ ObjResponse

(***************************************************************************)
(* Part VII: claims                                                        *)
(***************************************************************************)
HasInvalidJson == \E k \in DOMAIN objTexts : ~JsonParse(objTexts[k]).ok

\* C16: an item with a JSON parameter that does not parse issues no HTTP
\* request and fails with an 'Invalid JSON format' error.
C16_InvalidJsonFailsBeforeRequest ==
    (objPc \notin {"idle", "input"} /\ HasInvalidJson) =>
        /\ objRequests = 0
        /\ objPc = "failed"
        /\ objError \in InvalidJsonMessages

(***************************************************************************)
(* Part VIII: subscription filters of the trigger (SuiTrigger.node.ts)     *)
(***************************************************************************)
EventFilterTypes == {"package", "module", "moveEventType", "sender", "all"}
TxFilterTypes == {"fromAddress", "toAddress", "inputObject", "changedObject"}

PackageIds == {"0x2", "0xdee9"}
FilterAddresses == {"0xa11ce", "0xb0b"}
FilterObjectIds == {"0x0b1", "0x0b2"}

\* A filter object with one key
Filter(key, value) == [key |-> key, value |-> value]
\* {}
NoFilter == Filter("", <<>>)
NoRequest == [method |-> "", filter |-> NoFilter]

\* switch (eventFilterType) of trigger()
EventFilterOf(type, pkg, address) ==
    CASE type = "package" -> Filter("Package", <<pkg>>)
      [] type = "module" -> Filter("MoveEventModule", <<pkg, "moduleName">>)
      [] type = "moveEventType" -> Filter("MoveEventType", <<"moveEventType">>)
      [] type = "sender" -> Filter("Sender", <<address>>)
      [] OTHER -> NoFilter

\* switch (txFilterType) of trigger(): the one string handed to subscribeTransaction
TxFilterArgument(type, address, objectId) ==
    IF type \in {"fromAddress", "toAddress"} THEN address ELSE objectId

\* subscribeTransaction(address): params [{ filter: { FromAddress: address } }]
SubscribeTransactionFilter(address) == Filter("FromAddress", <<address>>)

\* The filter key the option selected in 'Transaction Filter Type' stands for
TxFilterKey(type) ==
    CASE type = "fromAddress" -> "FromAddress"
      [] type = "toAddress" -> "ToAddress"
      [] type = "inputObject" -> "InputObject"
      [] OTHER -> "ChangedObject"

IdleTrig ==
    /\ trigKind = "event"
    /\ trigFilterType = "all"
    /\ packageId = "0x2"
    /\ filterAddress = "0xa11ce"
    /\ filterObjectId = "0x0b1"
    /\ subFilter = NoRequest
    /\ trigPc = "idle"

\* trigger() has connected the WebSocket client
InitTrig ==
    /\ trigKind \in {"event", "transaction"}
    /\ trigFilterType \in IF trigKind = "event" THEN EventFilterTypes ELSE TxFilterTypes
    /\ packageId \in PackageIds
    /\ filterAddress \in FilterAddresses
    /\ filterObjectId \in FilterObjectIds
    /\ subFilter = NoRequest
    /\ trigPc = "connected"

\* await wsClient.subscribeEvent(filter)
TriggerSubscribeEvent ==
    /\ trigPc = "connected"
    /\ trigKind = "event"
    /\ subFilter' = [method |-> "suix_subscribeEvent",
                     filter |-> EventFilterOf(trigFilterType, packageId, filterAddress)]
    /\ trigPc' = "subscribed"
    /\ UNCHANGED <<trigKind, trigFilterType, packageId, filterAddress, filterObjectId>>
    /\ UNCHANGED notTrigVars

\* await wsClient.subscribeTransaction(address)
TriggerSubscribeTransaction ==
    /\ trigPc = "connected"
    /\ trigKind = "transaction"
    /\ subFilter' =
          [method |-> "suix_subscribeTransaction",
           filter |-> SubscribeTransactionFilter(
                         TxFilterArgument(trigFilterType, filterAddress, filterObjectId))]
    /\ trigPc' = "subscribed"
    /\ UNCHANGED <<trigKind, trigFilterType, packageId, filterAddress, filterObjectId>>
    /\ UNCHANGED notTrigVars

NextTrig ==
    \/ TriggerSubscribeEvent
    \/ TriggerSubscribeTransaction

(***************************************************************************)
(* Part VIII: claims                                                       *)
(***************************************************************************)
\* C17: the filter of the transaction subscription has the key of the filter
\* type the user selected and the value the user entered for it.
C17_TxFilterMatchesSelection ==
    (trigPc = "subscribed" /\ trigKind = "transaction") =>
        subFilter.filter =
            Filter(TxFilterKey(trigFilterType),
                   <<TxFilterArgument(trigFilterType, filterAddress, filterObjectId)>>)

(***************************************************************************)
(* Part IX: resource selector and dispatch of Sui.execute (Sui.node.ts)    *)
(***************************************************************************)
\* The values of the options of the 'resource' property
ResourceOptions ==
    {"transactions", "objects", "addresses", "validators", "unknown", "packages",
     "system"}

\* The 'operation' properties: the resource each is shown for, and its options
OperationDropdowns ==
    [transactions |-> {"getTransaction", "multiGetTransactions",
                       "queryTransactionBlocks", "executeTransactionBlock",
                       "dryRunTransactionBlock", "devInspectTransactionBlock"},
     objects |-> {"getObject", "multiGetObjects", "getOwnedObjects", "queryObjects",
                  "getDynamicFields", "getDynamicFieldObject"},
     addresses |-> {"getBalance", "getAllBalances", "getCoins", "getAllCoins",
                    "getTotalSupply"},
     validators |-> {"getLatestSuiSystemState", "getValidatorsApy", "getStakes",
                     "getStakesByIds"},
     events |-> {"queryEvents", "subscribeEvent", "subscribeTransaction",
                 "unsubscribeEvent"},
     packages |-> {"getMoveFunctionArgTypes", "getNormalizedMoveFunction",
                   "getNormalizedMoveModule", "getNormalizedMoveStruct",
                   "getNormalizedMoveModulesByPackage"},
     system |-> {"getReferenceGasPrice", "getNetworkMetrics", "getEpochs",
                 "getCurrentEpoch", "getCheckpoints",
                 "getLatestCheckpointSequenceNumber"}]

\* The options of the dropdown displayed for a resource; none if no 'operation'
\* property names the resource in displayOptions.show
OperationOptions(res) ==
    IF res \in DOMAIN OperationDropdowns THEN OperationDropdowns[res] ELSE {}

\* The functions declared in the module
DefinedHandlers ==
    {"executeTransactionsOperations", "executeObjectsOperations",
     "executeAddressesOperations", "executeValidatorsOperations",
     "executeEventsOperations", "executePackagesOperations",
     "executeSystemOperations"}

\* switch (resource) of execute(): the function each case calls
DispatchTarget ==
    [transactions |-> "executeTransactionsOperations",
     objects |-> "executeObjectsOperations",
     addresses |-> "executeAddressesOperations",
     validators |-> "executeValidatorsOperations",
     unknown |-> "executeunknownOperations",
     packages |-> "executePackagesOperations",
     system |-> "executeSystemOperations"]

\* switch (operation) of each handler: the resource whose operations it knows
HandlerCases(handler) ==
    CASE handler = "executeTransactionsOperations" -> OperationDropdowns["transactions"]
      [] handler = "executeObjectsOperations" -> OperationDropdowns["objects"]
      [] handler = "executeAddressesOperations" -> OperationDropdowns["addresses"]
      [] handler = "executeValidatorsOperations" -> OperationDropdowns["validators"]
      [] handler = "executeEventsOperations" -> OperationDropdowns["events"]
      [] handler = "executePackagesOperations" -> OperationDropdowns["packages"]
      [] handler = "executeSystemOperations" -> OperationDropdowns["system"]
      [] OTHER -> {}

IdleDisp ==
    /\ selResource = "transactions"
    /\ selOperation = "getTransaction"
    /\ inputItems = 0
    /\ dispatchPc = "idle"
    /\ dispatchHandler = ""
    /\ dispatchError = ""

\* The user has filled in the node; execute() has read items and resource
InitDisp ==
    /\ selResource \in ResourceOptions
    /\ selOperation \in IF OperationOptions(selResource) = {}
                        THEN {""}
                        ELSE OperationOptions(selResource)
    /\ inputItems \in 0..MaxItems
    /\ dispatchPc = "selected"
    /\ dispatchHandler = ""
    /\ dispatchError = ""

\* switch (resource) { case ...: return [await executeXOperations.call(this, items)] }
Dispatch ==
    /\ dispatchPc = "selected"
    /\ IF selResource \notin DOMAIN DispatchTarget
       THEN /\ dispatchPc' = "thrown"
            /\ dispatchError' = "The resource is not supported"
            /\ UNCHANGED dispatchHandler
       ELSE IF DispatchTarget[selResource] \in DefinedHandlers
            THEN /\ dispatchPc' = "handler"
                 /\ dispatchHandler' = DispatchTarget[selResource]
                 /\ UNCHANGED dispatchError
            ELSE /\ dispatchPc' = "thrown"
                 /\ dispatchError' = "ReferenceError"
                 /\ UNCHANGED dispatchHandler
    /\ UNCHANGED <<selResource, selOperation, inputItems>>
    /\ UNCHANGED notDispVars

\* The handler's loop reaches switch (operation) for the first item, if any
HandlerSwitch ==
    /\ dispatchPc = "handler"
    /\ inputItems > 0
    /\ IF selOperation \in HandlerCases(dispatchHandler)
       THEN dispatchPc' = "operation" /\ UNCHANGED dispatchError
       ELSE dispatchPc' = "thrown" /\ dispatchError' = "Unknown operation"
    /\ UNCHANGED <<selResource, selOperation, inputItems, dispatchHandler>>
    /\ UNCHANGED notDispVars

NextDisp ==
    \/ Dispatch
    \/ HandlerSwitch

(***************************************************************************)
(* Part IX: claims                                                         *)
(***************************************************************************)
\* C18: whichever resource is selected, an Operation dropdown is shown for it,
\* and execute() hands the items to a handler function that is defined.
C18_EveryResourceDispatches ==
    /\ dispatchPc # "idle" => selOperation \in OperationOptions(selResource)
    /\ dispatchPc \notin {"idle", "selected"} =>
          /\ dispatchHandler \in DefinedHandlers
          /\ dispatchError \notin {"ReferenceError", "The resource is not supported"}

(***************************************************************************)
(* Part X: estimateGas (transport/suiClient.ts)                            *)
(***************************************************************************)
\* The decimal strings in which the node reports gas amounts
Digits == {0, 1, 9}
GasAmounts == UNION {[1..n -> Digits] : n \in 1..MaxDigits}

\* effects.gasUsed of a dry run
GasSummaries ==
    [computationCost : GasAmounts, storageCost : GasAmounts,
     storageRebate : GasAmounts]

NoGasSummary ==
    [computationCost |-> <<0>>, storageCost |-> <<0>>, storageRebate |-> <<0>>]

\* BigInt(text) of a decimal string
RECURSIVE BigInt(_)
BigInt(text) ==
    IF text = <<>> THEN 0
    ELSE 10 * BigInt(SubSeq(text, 1, Len(text) - 1)) + text[Len(text)]

\* Variant: the net charge is returned as computed.
TotalGasUnfloored(used) ==
    BigInt(used.computationCost) + BigInt(used.storageCost)
        - BigInt(used.storageRebate)

\* totalGas = BigInt(computationCost) + BigInt(storageCost) - BigInt(storageRebate);
\* return totalGas > 0n ? totalGas : 0n   (BigInt: no overflow)
TotalGas(used) ==
    LET totalGas == BigInt(used.computationCost) + BigInt(used.storageCost)
                        - BigInt(used.storageRebate)
    IN IF totalGas > 0 THEN totalGas ELSE 0

IdleGas ==
    /\ gasUsed = NoGasSummary
    /\ gasPc = "idle"
    /\ gasEstimate = 0

\* estimateGas(client, transaction, sender) awaits the dry run
InitGas ==
    /\ gasUsed = NoGasSummary
    /\ gasPc = "dryRun"
    /\ gasEstimate = 0

\* dryRunTransaction resolves with some gas summary; the estimate is returned
EstimateGas ==
    /\ gasPc = "dryRun"
    /\ \E used \in GasSummaries :
          /\ gasUsed' = used
          /\ gasEstimate' = TotalGas(used)
    /\ gasPc' = "returned"
    /\ UNCHANGED notGasVars

NextGas == EstimateGas

(***************************************************************************)
(* Part X: claims                                                          *)
(***************************************************************************)
Max(a, b) == IF a >= b THEN a ELSE b

\* The number a decimal string denotes, by its digits' weights
RECURSIVE TenTo(_)
TenTo(n) == IF n = 0 THEN 1 ELSE 10 * TenTo(n - 1)
RECURSIVE WeightedSum(_, _)
WeightedSum(text, k) ==
    IF k > Len(text) THEN 0
    ELSE text[k] * TenTo(Len(text) - k) + WeightedSum(text, k + 1)
Amount(text) == WeightedSum(text, 1)

\* C20: the estimate returned is max(0, computationCost + storageCost -
\* storageRebate) of the dry run, and is never negative.
C20_EstimateIsFlooredNetCost ==
    gasPc = "returned" =>
        /\ gasEstimate =
              Max(0, Amount(gasUsed.computationCost) + Amount(gasUsed.storageCost)
                        - Amount(gasUsed.storageRebate))
        /\ gasEstimate >= 0

\* A dry run whose rebate exceeds its costs: the estimate is zero.
C20_Witness ==
    /\ gasPc = "returned"
    /\ Amount(gasUsed.storageRebate) >
          Amount(gasUsed.computationCost) + Amount(gasUsed.storageCost)
    /\ gasEstimate = 0

(***************************************************************************)
(* Part XI: identifiers and coin types (utils/objectUtils.ts)              *)
(***************************************************************************)
AddressLength == 64

\* [a-fA-F0-9]
HexChars ==
    {"0", "1", "2", "3", "4", "5", "6", "7", "8", "9", "a", "b", "c", "d", "e",
     "f", "A", "B", "C", "D", "E", "F"}
AllHex(text) == \A k \in 1..Len(text) : text[k] \in HexChars

Repeat(char, n) == [k \in 1..n |-> char]

\* text.startsWith('0x') ? text.slice(2) : text
StripPrefix(text) ==
    IF Len(text) >= 2 /\ text[1] = "0" /\ text[2] = "x"
    THEN SubSeq(text, 3, Len(text))
    ELSE text

\* Variant: the pattern of isValidObjectId, 1 to 64 hexadecimal characters.
IsValidUpToLength(address) ==
    /\ address # <<>>
    /\ Len(StripPrefix(address)) \in 1..AddressLength
    /\ AllHex(StripPrefix(address))

\* isValidSuiAddress: /^[a-fA-F0-9]{64}$/.test(cleanAddress)
IsValidSuiAddress(address) ==
    /\ address # <<>>
    /\ Len(StripPrefix(address)) = AddressLength
    /\ AllHex(StripPrefix(address))

\* isValidObjectId: /^[a-fA-F0-9]{1,64}$/.test(cleanId)
IsValidObjectId(objectId) ==
    /\ objectId # <<>>
    /\ Len(StripPrefix(objectId)) \in 1..AddressLength
    /\ AllHex(StripPrefix(objectId))

\* text.padStart(64, '0')
PadStart(text) ==
    IF Len(text) >= AddressLength THEN text
    ELSE Repeat("0", AddressLength - Len(text)) \o text

\* Variant: the identifier is padded with its prefix still on.
NormalizeKeepingPrefix(objectId) == <<"0", "x">> \o PadStart(objectId)

\* normalizeObjectId
NormalizeObjectId(objectId) == <<"0", "x">> \o PadStart(StripPrefix(objectId))

\* The strings handed to the identifier functions: bodies of one repeated
\* character, short or about as long as an address, bare or prefixed, and the
\* same with one character replaced by one that is not hexadecimal
BodyLengths ==
    (0..MaxSlack) \cup ((AddressLength - MaxSlack)..(AddressLength + MaxSlack))
Bodies == {Repeat(c, n) : c \in {"0", "a", "F"}, n \in BodyLengths}
Spoiled ==
    {[b EXCEPT ![k] = bad] : b \in {x \in Bodies : Len(x) = AddressLength},
                             k \in {1, AddressLength},
                             bad \in {"g", "x", " ", "\n"}}
Prefixes == {<<>>, <<"0", "x">>, <<"0", "X">>}
IdTexts == {p \o b : p \in Prefixes, b \in Bodies \cup Spoiled}

\* '0x2::coin::Coin<'
CoinPrefix == <<"0", "x", "2", ":", ":", "c", "o", "i", "n",
              ":", ":", "C", "o", "i", "n", "<">>
LineTerminators == {"\n", "\r"}

\* Coin types: a struct name, or a generic struct applied to a coin type
BaseTypes == {<<"0", "x", "2", ":", ":", "s", "u", "i", ":", ":", "S", "U", "I">>,
              <<"0", "x", "a", ":", ":", "u", "s", "d", "c", ":", ":", "U", "S", "D", "C">>}
GenericTypes == {<<"0", "x", "2", ":", ":", "c", "o", "i", "n", ":", ":", "C", "o", "i", "n">>,
                 <<"0", "x", "b", ":", ":", "p", ":", ":", "L", "P">>}
RECURSIVE CoinTypes(_)
CoinTypes(depth) ==
    IF depth = 0 THEN BaseTypes
    ELSE BaseTypes \cup
         {g \o <<"<">> \o t \o <<">">> : g \in GenericTypes, t \in CoinTypes(depth - 1)}
WellFormedCoinTypes == CoinTypes(MaxTypeDepth)
\* Strings that are no coin type: the empty string, a name broken by a newline
NoCoinTypes == {<<>>, <<"0", "x", "2", "\n", ":", ":", "s", ":", ":", "S">>}
CoinTexts == WellFormedCoinTypes \cup NoCoinTypes

\* `0x2::coin::Coin<${coinType}>`
BuildCoinObjectType(coinType) == CoinPrefix \o coinType \o <<">">>

NoMatch == [found |-> FALSE, text |-> <<>>]
PrefixAt(text, k) ==
    /\ k + Len(CoinPrefix) - 1 <= Len(text)
    /\ SubSeq(text, k, k + Len(CoinPrefix) - 1) = CoinPrefix
\* The positions at which '(.+)>' can end after a prefix at k: a '>' with at
\* least one character before it and no line terminator in between
Closers(text, k) ==
    {j \in (k + Len(CoinPrefix) + 1)..Len(text) :
        /\ text[j] = ">"
        /\ \A c \in (k + Len(CoinPrefix))..(j - 1) : text[c] \notin LineTerminators}
MatchStarts(text) ==
    {k \in 1..Len(text) : PrefixAt(text, k) /\ Closers(text, k) # {}}
Least(set) == CHOOSE x \in set : \A y \in set : x <= y
Greatest(set) == CHOOSE x \in set : \A y \in set : x >= y

\* Variant: the group is lazy, /0x2::coin::Coin<(.+?)>/.
ExtractCoinTypeLazy(coinObjectType) ==
    IF MatchStarts(coinObjectType) = {} THEN NoMatch
    ELSE LET k == Least(MatchStarts(coinObjectType))
             j == Least(Closers(coinObjectType, k))
         IN [found |-> TRUE,
             text |-> SubSeq(coinObjectType, k + Len(CoinPrefix), j - 1)]

\* extractCoinType: coinObjectType.match(/0x2::coin::Coin<(.+)>/), leftmost
\* match, greedy group
ExtractCoinType(coinObjectType) ==
    IF MatchStarts(coinObjectType) = {} THEN NoMatch
    ELSE LET k == Least(MatchStarts(coinObjectType))
             j == Greatest(Closers(coinObjectType, k))
         IN [found |-> TRUE,
             text |-> SubSeq(coinObjectType, k + Len(CoinPrefix), j - 1)]

UtilFunctions == {"isValidSuiAddress", "normalizeObjectId", "buildCoinObjectType"}

IdleUtil ==
    /\ utilFn = "none"
    /\ utilText = <<>>
    /\ addrValid = FALSE
    /\ normOnce = <<>>
    /\ normTwice = <<>>
    /\ coinBuilt = <<>>
    /\ coinExtracted = NoMatch
    /\ utilPc = "idle"

\* A caller is about to call one of the functions with some string
InitUtil ==
    /\ utilFn \in UtilFunctions
    /\ utilText \in IF utilFn = "buildCoinObjectType" THEN CoinTexts ELSE IdTexts
    /\ addrValid = FALSE
    /\ normOnce = <<>>
    /\ normTwice = <<>>
    /\ coinBuilt = <<>>
    /\ coinExtracted = NoMatch
    /\ utilPc = "input"

CallIsValidSuiAddress ==
    /\ utilPc = "input"
    /\ utilFn = "isValidSuiAddress"
    /\ addrValid' = IsValidSuiAddress(utilText)
    /\ utilPc' = "done"
    /\ UNCHANGED <<utilFn, utilText, normOnce, normTwice, coinBuilt, coinExtracted>>
    /\ UNCHANGED notUtilVars

CallNormalizeObjectId ==
    /\ utilPc = "input"
    /\ utilFn = "normalizeObjectId"
    /\ normOnce' = NormalizeObjectId(utilText)
    /\ utilPc' = "once"
    /\ UNCHANGED <<utilFn, utilText, addrValid, normTwice, coinBuilt, coinExtracted>>
    /\ UNCHANGED notUtilVars

\* The result is normalized again (isOwnedBy normalizes whatever it is given)
CallNormalizeAgain ==
    /\ utilPc = "once"
    /\ normTwice' = NormalizeObjectId(normOnce)
    /\ utilPc' = "done"
    /\ UNCHANGED <<utilFn, utilText, addrValid, normOnce, coinBuilt, coinExtracted>>
    /\ UNCHANGED notUtilVars

CallBuildCoinObjectType ==
    /\ utilPc = "input"
    /\ utilFn = "buildCoinObjectType"
    /\ coinBuilt' = BuildCoinObjectType(utilText)
    /\ utilPc' = "built"
    /\ UNCHANGED <<utilFn, utilText, addrValid, normOnce, normTwice, coinExtracted>>
    /\ UNCHANGED notUtilVars

CallExtractCoinType ==
    /\ utilPc = "built"
    /\ coinExtracted' = ExtractCoinType(coinBuilt)
    /\ utilPc' = "done"
    /\ UNCHANGED <<utilFn, utilText, addrValid, normOnce, normTwice, coinBuilt>>
    /\ UNCHANGED notUtilVars

NextUtil ==
    \/ CallIsValidSuiAddress
    \/ CallNormalizeObjectId
    \/ CallNormalizeAgain
    \/ CallBuildCoinObjectType
    \/ CallExtractCoinType

(***************************************************************************)
(* Part XI: claims                                                         *)
(***************************************************************************)
\* C21: isValidSuiAddress answers true exactly for 64 hexadecimal characters,
\* bare or after one leading '0x'.
C21_AddressIs64Hex ==
    (utilFn = "isValidSuiAddress" /\ utilPc = "done") =>
        (addrValid <=>
            \/ Len(utilText) = AddressLength /\ AllHex(utilText)
            \/ /\ Len(utilText) = AddressLength + 2
               /\ SubSeq(utilText, 1, 2) = <<"0", "x">>
               /\ AllHex(SubSeq(utilText, 3, Len(utilText))))

\* A prefixed address of 64 hexadecimal characters has been accepted.
C21_Witness ==
    /\ utilFn = "isValidSuiAddress"
    /\ utilPc = "done"
    /\ Len(utilText) = AddressLength + 2
    /\ addrValid

\* C22: for a valid hex identifier, normalizeObjectId returns '0x' followed by
\* the identifier left-padded with zeros to 64 characters, and normalizing the
\* result again returns it unchanged.
C22_NormalizePadsAndIsIdempotent ==
    (utilFn = "normalizeObjectId" /\ IsValidObjectId(utilText)) =>
        /\ utilPc \in {"once", "done"} =>
              LET digits == StripPrefix(utilText)
              IN /\ Len(normOnce) = AddressLength + 2
                 /\ SubSeq(normOnce, 1, 2) = <<"0", "x">>
                 /\ \A k \in 3..Len(normOnce) :
                       normOnce[k] =
                          IF k - 2 <= AddressLength - Len(digits) THEN "0"
                          ELSE digits[k - 2 - (AddressLength - Len(digits))]
        /\ utilPc = "done" => normTwice = normOnce

\* A short prefixed identifier has been normalized twice.
C22_Witness ==
    /\ utilFn = "normalizeObjectId"
    /\ utilPc = "done"
    /\ IsValidObjectId(utilText)
    /\ Len(utilText) < AddressLength
    /\ Len(utilText) > 2
    /\ utilText[2] = "x"
    /\ normTwice = normOnce

\* C23: for a well-formed coin type t, extractCoinType(buildCoinObjectType(t))
\* is t, also when t has type arguments in angle brackets.
C23_CoinTypeRoundTrip ==
    (utilFn = "buildCoinObjectType" /\ utilPc = "done"
        /\ utilText \in WellFormedCoinTypes) =>
        coinExtracted = [found |-> TRUE, text |-> utilText]

\* A coin type with a type argument has made the round trip.
C23_Witness ==
    /\ utilFn = "buildCoinObjectType"
    /\ utilPc = "done"
    /\ utilText \in WellFormedCoinTypes \ BaseTypes
    /\ coinExtracted.found
    /\ coinExtracted.text = utilText

(***************************************************************************)
(* Part XII: amounts and smallest units (utils/unitConverter.ts)           *)
(* JavaScript numbers are IEEE 754 doubles: a significand of 53 bits and a *)
(* power of two, every operation rounded to nearest, ties to even.         *)
(* Naturals beyond the checker's integers are sequences of 15-bit limbs,   *)
(* least significant first.                                                *)
(***************************************************************************)
SignificandBits == 53
LimbBits == 15
LimbBase == 32768

RECURSIVE Limbs(_)
Limbs(n) == IF n = 0 THEN <<>> ELSE <<n % LimbBase>> \o Limbs(n \div LimbBase)

RECURSIVE LimbsValue(_)
LimbsValue(b) == IF b = <<>> THEN 0 ELSE b[1] + LimbBase * LimbsValue(Tail(b))

RECURSIVE Trim(_)
Trim(b) ==
    IF b = <<>> THEN <<>>
    ELSE IF b[Len(b)] = 0 THEN Trim(SubSeq(b, 1, Len(b) - 1)) ELSE b

RECURSIVE AddOne(_)
AddOne(b) ==
    IF b = <<>> THEN <<1>>
    ELSE IF b[1] < LimbBase - 1 THEN <<b[1] + 1>> \o Tail(b)
    ELSE <<0>> \o AddOne(Tail(b))

RECURSIVE TimesCarry(_, _, _)
TimesCarry(b, k, carry) ==
    IF b = <<>> THEN Limbs(carry)
    ELSE LET v == b[1] * k + carry
         IN <<v % LimbBase>> \o TimesCarry(Tail(b), k, v \div LimbBase)
\* b * k for a k below LimbBase
TimesSmall(b, k) == Trim(TimesCarry(b, k, 0))

RECURSIVE DivModCarry(_, _)
DivModCarry(b, k) ==
    IF b = <<>> THEN [q |-> <<>>, r |-> 0]
    ELSE LET high == DivModCarry(Tail(b), k)
             cur == LimbBase * high.r + b[1]
         IN [q |-> <<cur \div k>> \o high.q, r |-> cur % k]
\* quotient and remainder of b by a k below LimbBase
DivModSmall(b, k) ==
    [q |-> Trim(DivModCarry(b, k).q), r |-> DivModCarry(b, k).r]

\* The number of bits of b
BitLength(b) ==
    IF b = <<>> THEN 0
    ELSE LimbBits * (Len(b) - 1)
            + (CHOOSE j \in 1..LimbBits : Pow2(j - 1) <= b[Len(b)] /\ b[Len(b)] < Pow2(j))

IsOdd(b) == b # <<>> /\ b[1] % 2 = 1

\* b * 2^s
TimesPow2(b, s) ==
    IF b = <<>> THEN <<>>
    ELSE [k \in 1..(s \div LimbBits) |-> 0] \o TimesSmall(b, Pow2(s % LimbBits))

\* b / 2^t: the quotient, and how the remainder compares with half of 2^t
DivPow2(b, t) ==
    LET whole == t \div LimbBits
        part == t % LimbBits
        upper == IF whole >= Len(b) THEN <<>> ELSE SubSeq(b, whole + 1, Len(b))
        d == DivModSmall(upper, Pow2(part))
        lowZero(n) == \A k \in 1..n : k > Len(b) \/ b[k] = 0
        top == IF whole >= 1 /\ whole <= Len(b) THEN b[whole] ELSE 0
        rest ==
            IF t = 0 THEN "zero"
            ELSE IF part >= 1
            THEN IF d.r > Pow2(part - 1) THEN "above"
                 ELSE IF d.r = Pow2(part - 1)
                      THEN IF lowZero(whole) THEN "half" ELSE "above"
                 ELSE IF d.r = 0 /\ lowZero(whole) THEN "zero" ELSE "below"
            ELSE IF top > Pow2(LimbBits - 1) THEN "above"
                 ELSE IF top = Pow2(LimbBits - 1)
                      THEN IF lowZero(whole - 1) THEN "half" ELSE "above"
                 ELSE IF top = 0 /\ lowZero(whole - 1) THEN "zero" ELSE "below"
    IN [q |-> d.q, rest |-> rest]

\* b / 2^t rounded to nearest, ties to even
RoundNearestEven(b, t) ==
    LET d == DivPow2(b, t)
    IN IF d.rest = "above" \/ (d.rest = "half" /\ IsOdd(d.q)) THEN AddOne(d.q)
       ELSE d.q

\* A double: significand m times 2^e
Double(m, e) == [m |-> m, e |-> e]

\* The least s with n * 2^s / den of at least 53 bits
RECURSIVE ShiftFor(_, _, _)
ShiftFor(n, den, s) ==
    IF BitLength(DivModSmall(TimesPow2(Limbs(n), s), den).q) >= SignificandBits
    THEN s
    ELSE ShiftFor(n, den, s + 1)

\* The double nearest to n / den: what parseFloat yields for the decimal
\* string of n / den, and what the division of the doubles n and den yields
NearestDouble(n, den) ==
    IF n = 0 THEN Double(<<>>, 0)
    ELSE LET s == ShiftFor(n, den, IF BitLength(Limbs(n)) >= SignificandBits THEN 0
                                    ELSE SignificandBits - BitLength(Limbs(n)))
             d == DivModSmall(TimesPow2(Limbs(n), s), den)
             up == 2 * d.r > den \/ (2 * d.r = den /\ IsOdd(d.q))
         IN Double(IF up THEN AddOne(d.q) ELSE d.q, -s)

\* x * k for a double x and a small integer k, rounded to a double
TimesDouble(x, k) ==
    LET product == TimesSmall(x.m, k)
        t == BitLength(product) - SignificandBits
    IN IF t > 0 THEN Double(RoundNearestEven(product, t), x.e + t)
       ELSE Double(product, x.e)

\* BigInt(Math.floor(x)) for a double x >= 0
Floor(x) == IF x.e >= 0 THEN TimesPow2(x.m, x.e) ELSE DivPow2(x.m, -x.e).q

RECURSIVE Pow10(_)
Pow10(n) == IF n = 0 THEN 1 ELSE 10 * Pow10(n - 1)

\* toSmallestUnit(amount, decimals) for amount = scaled / 10^decimals:
\* BigInt(Math.floor(amountNum * Math.pow(10, decimals)))
ToSmallestUnit(scaled, decimals) ==
    LimbsValue(Floor(TimesDouble(NearestDouble(scaled, Pow10(decimals)),
                                 Pow10(decimals))))

\* The decimal digits of n, at least width of them
RECURSIVE DigitsOf(_, _)
DigitsOf(n, width) ==
    IF n = 0 /\ width <= 0 THEN <<>>
    ELSE DigitsOf(n \div 10, width - 1) \o <<n % 10>>

\* The text of scaled / 10^places with exactly places fractional digits
FixedText(scaled, places) ==
    [whole |-> DigitsOf(scaled \div Pow10(places), 1),
     fraction |-> DigitsOf(scaled % Pow10(places), places)]

\* x.toFixed(places): the integer n with n / 10^places nearest to x, the
\* larger one of two, written with places fractional digits
ToFixed(x, places) ==
    LET product == TimesSmall(x.m, Pow10(places))
        d == IF x.e >= 0 THEN [q |-> TimesPow2(product, x.e), rest |-> "zero"]
             ELSE DivPow2(product, -x.e)
        up == d.rest \in {"half", "above"}
    IN FixedText(LimbsValue(IF up THEN AddOne(d.q) ELSE d.q), places)

\* fromSmallestUnit(amount, decimals):
\* (Number(BigInt(amount)) / Math.pow(10, decimals)).toFixed(decimals)
FromSmallestUnit(amount, decimals) ==
    ToFixed(NearestDouble(amount, Pow10(decimals)), decimals)

NoText == [whole |-> <<>>, fraction |-> <<>>]

IdleUnit ==
    /\ unitScaled = 0
    /\ unitDecimals = 0
    /\ unitSmallest = 0
    /\ unitText = NoText
    /\ unitPc = "idle"

\* A caller holds an amount with at most unitDecimals fractional digits
InitUnit ==
    /\ unitScaled \in 0..MaxScaled
    /\ unitDecimals \in 0..MaxDecimals
    /\ unitSmallest = 0
    /\ unitText = NoText
    /\ unitPc = "input"

CallToSmallestUnit ==
    /\ unitPc = "input"
    /\ unitSmallest' = ToSmallestUnit(unitScaled, unitDecimals)
    /\ unitPc' = "converted"
    /\ UNCHANGED <<unitScaled, unitDecimals, unitText>>
    /\ UNCHANGED notUnitVars

CallFromSmallestUnit ==
    /\ unitPc = "converted"
    /\ unitText' = FromSmallestUnit(unitSmallest, unitDecimals)
    /\ unitPc' = "done"
    /\ UNCHANGED <<unitScaled, unitDecimals, unitSmallest>>
    /\ UNCHANGED notUnitVars

NextUnit ==
    \/ CallToSmallestUnit
    \/ CallFromSmallestUnit

(***************************************************************************)
(* Part XII: claims                                                        *)
(***************************************************************************)
\* C24: for an amount x with at most d fractional digits, toSmallestUnit(x, d)
\* is x * 10^d, and fromSmallestUnit of it is x written with d decimal places.
C24_UnitRoundTrip ==
    /\ unitPc \in {"converted", "done"} => unitSmallest = unitScaled
    /\ unitPc = "done" => unitText = FixedText(unitScaled, unitDecimals)

(***************************************************************************)
(* Specifications                                                          *)
(***************************************************************************)
InitSpecWs == InitWs /\ IdleRaw /\ IdleSdk /\ IdleNet /\ IdleWait
    /\ IdleList /\ IdleObj /\ IdleTrig /\ IdleDisp /\ IdleGas /\ IdleUtil /\ IdleUnit
SpecWs == InitSpecWs /\ [][NextWs]_vars

IdleWs == InitWs /\ triggerType = "event"
InitSpecRaw == InitRaw /\ IdleWs /\ IdleSdk /\ IdleNet /\ IdleWait
    /\ IdleList /\ IdleObj /\ IdleTrig /\ IdleDisp /\ IdleGas /\ IdleUtil /\ IdleUnit
SpecRaw == InitSpecRaw /\ [][NextRaw]_vars

InitSpecSdk == InitSdk /\ IdleWs /\ IdleRaw /\ IdleNet /\ IdleWait
    /\ IdleList /\ IdleObj /\ IdleTrig /\ IdleDisp /\ IdleGas /\ IdleUtil /\ IdleUnit
SpecSdk == InitSpecSdk /\ [][NextSdk]_vars

InitSpecNet == InitNet /\ IdleWs /\ IdleRaw /\ IdleSdk /\ IdleWait
    /\ IdleList /\ IdleObj /\ IdleTrig /\ IdleDisp /\ IdleGas /\ IdleUtil /\ IdleUnit
SpecNet == InitSpecNet /\ [][NextNet]_vars

InitSpecWait == InitWait /\ IdleWs /\ IdleRaw /\ IdleSdk /\ IdleNet
    /\ IdleList /\ IdleObj /\ IdleTrig /\ IdleDisp /\ IdleGas /\ IdleUtil /\ IdleUnit
SpecWait == InitSpecWait /\ [][NextWait]_vars

InitSpecList == InitList /\ IdleWs /\ IdleRaw /\ IdleSdk /\ IdleNet
    /\ IdleWait /\ IdleObj /\ IdleTrig /\ IdleDisp /\ IdleGas /\ IdleUtil /\ IdleUnit
SpecList == InitSpecList /\ [][NextList]_vars

InitSpecObj ==
    InitObj /\ IdleWs /\ IdleRaw /\ IdleSdk /\ IdleNet /\ IdleWait /\ IdleList
    /\ IdleTrig /\ IdleDisp /\ IdleGas /\ IdleUtil /\ IdleUnit
SpecObj == InitSpecObj /\ [][NextObj]_vars

InitSpecTrig ==
    InitTrig /\ IdleWs /\ IdleRaw /\ IdleSdk /\ IdleNet /\ IdleWait /\ IdleList
    /\ IdleObj /\ IdleDisp /\ IdleGas /\ IdleUtil /\ IdleUnit
SpecTrig == InitSpecTrig /\ [][NextTrig]_vars

InitSpecDisp ==
    InitDisp /\ IdleWs /\ IdleRaw /\ IdleSdk /\ IdleNet /\ IdleWait /\ IdleList
    /\ IdleObj /\ IdleTrig /\ IdleGas /\ IdleUtil /\ IdleUnit
SpecDisp == InitSpecDisp /\ [][NextDisp]_vars

InitSpecGas ==
    InitGas /\ IdleWs /\ IdleRaw /\ IdleSdk /\ IdleNet /\ IdleWait /\ IdleList
    /\ IdleObj /\ IdleTrig /\ IdleDisp /\ IdleUtil /\ IdleUnit
SpecGas == InitSpecGas /\ [][NextGas]_vars

InitSpecUtil ==
    InitUtil /\ IdleWs /\ IdleRaw /\ IdleSdk /\ IdleNet /\ IdleWait
    /\ IdleList /\ IdleObj /\ IdleTrig /\ IdleDisp /\ IdleGas /\ IdleUnit
SpecUtil == InitSpecUtil /\ [][NextUtil]_vars

InitSpecUnit ==
    InitUnit /\ IdleWs /\ IdleRaw /\ IdleSdk /\ IdleNet /\ IdleWait
    /\ IdleList /\ IdleObj /\ IdleTrig /\ IdleDisp /\ IdleGas /\ IdleUtil
SpecUnit == InitSpecUnit /\ [][NextUnit]_vars
====
